---- MODULE Spec2Model ----
(***************************************************************************)
(* A model of the GestureControl repository: the intent processor          *)
(* (intents.py), the virtual-object manager (object.py), the window        *)
(* controller (object_controller.py, window_manager.py, menu_system.py)    *)
(* and the object-mode frame loop of version3.py.                          *)
(*                                                                         *)
(* Numbers.  Normalized coordinates (0.0 .. 1.0) are integers in units of  *)
(* 1/One, so 0.5 is One \div 2.  Confidences are in hundredths (0.9 = 90). *)
(* Velocities are in thousandths.  Optional values are sequences:          *)
(* None is <<>> and a present value v is <<v>>.                            *)
(***************************************************************************)
EXTENDS Integers, Sequences, FiniteSets, TLC

VARIABLES
    \* ---- version3.py, intents.py, object_controller.py ----
    session,          \* the running session (see NewSession)
    fresh,            \* a session started at the last no-hand frame and fed
                      \* the same frames since, for comparison; None before
    now,              \* the clock time.time() reads, in tenths of a second
    \* ---- object.py : ObjectManager and the VirtualObjects ----
    vobj,             \* every VirtualObject constructed, by object id
    objects,          \* ObjectManager.objects (a list of object ids)
    selected_object,  \* ObjectManager.selected_object
    grabbed_object,   \* ObjectManager.grabbed_object
    \* ---- utils.py, gestures.py : objects and inputs of single calls ----
    sbuf,             \* a SlidingBuffer: its maxlen and its deque
    appended,         \* the values appended to sbuf since its last clear
    detected,         \* what the last detect_swipe(sbuf) returned
    lm,               \* the landmarks handed to the gesture predicates
    verdicts,         \* what each predicate answered for lm; None before
    \* ---- cursor.py and the mouse ----
    pointer,          \* the cursor module's globals and the mouse
    called,           \* the last call made on the cursor module; None before
    ncalls,           \* how many move_cursor calls were made
    \* ---- version2.py ----
    v2loop,           \* the variables of version2's main loop
    trace,            \* what the loop was shown and what it did (see NewTrace)
    \* ---- menu_system.py : MenuManager and the RadialMenus ----
    menus,            \* every RadialMenu created, by menu id
    active_menu,      \* MenuManager.active_menu (a menu id) or None
    opened,           \* the menus opened through the manager so far
    \* ---- gesture_control.py ----
    given,            \* the landmarks and handedness given to classify_gesture
    gesture           \* what classify_gesture returned for them; None before

None == <<>>
Some(v) == <<v>>
Val(o) == o[1]

\* What a call does: it returns a value or raises an exception.
Returns(v) == [ raises |-> None, returns |-> Some(v) ]
Raises(e) == [ raises |-> Some(e), returns |-> None ]

\* The unit of normalized coordinates: 1.0.
One == 6 * 100

Abs(n) == IF n < 0 THEN -n ELSE n
Max(a, b) == IF a >= b THEN a ELSE b
Min(a, b) == IF a <= b THEN a ELSE b

(***************************************************************************)
(* intents.py                                                              *)
(***************************************************************************)
GRAB_OBJECT == "grab_object"
RELEASE_OBJECT == "release_object"
HOVER_OBJECT == "hover_object"
SWIPE_LEFT == "swipe_left"
SWIPE_RIGHT == "swipe_right"
SWIPE_UP == "swipe_up"
SWIPE_DOWN == "swipe_down"
OPEN_MENU == "open_menu"
CLOSE_MENU == "close_menu"
SELECT_OPTION == "select_option"
CLICK == "click"
DRAG == "drag"
SCROLL == "scroll"
ZOOM == "zoom"
ROTATE == "rotate"
UNKNOWN == "unknown"

IntentType ==
    { GRAB_OBJECT, RELEASE_OBJECT, HOVER_OBJECT, SWIPE_LEFT, SWIPE_RIGHT,
      SWIPE_UP, SWIPE_DOWN, OPEN_MENU, CLOSE_MENU, SELECT_OPTION, CLICK,
      DRAG, SCROLL, ZOOM, ROTATE, UNKNOWN }

\* A Python dict: a function whose domain is the set of keys present.
EmptyDict == [k \in {} |-> None]
Dict1(key, value) == [k \in {key} |-> value]

\* dict.get(key, default)
Get(d, key, default) == IF key \in DOMAIN d THEN d[key] ELSE default

\* GestureIntent(intent_type, confidence, position, metadata); position is
\* Optional, and __post_init__ turns a missing metadata into {}.
GestureIntent(t, c, p, m) ==
    [intent_type |-> t, confidence |-> c, position |-> p, metadata |-> m]

\* Python truthiness of an Optional[str]: None and "" are false.
StrTruthy(o) == o # None /\ Val(o) # ""

\* The local intent_map of process_gesture and its .get(.., UNKNOWN).
IntentMapGet(direction) ==
    CASE direction = "swipe_left" -> SWIPE_LEFT
      [] direction = "swipe_right" -> SWIPE_RIGHT
      [] direction = "swipe_up" -> SWIPE_UP
      [] direction = "swipe_down" -> SWIPE_DOWN
      [] OTHER -> UNKNOWN

DefaultPosition == << One \div 2, One \div 2, (3 * One) \div 10 >>
ZeroVelocity == << 0, 0, 0 >>

\* abs(v) > 0.01, velocities in thousandths
VelocityMoves(v) == Abs(v[1]) > 10 \/ Abs(v[2]) > 10

\* Rules 1 and 2 of process_gesture (grab, then release after grab).
GrabRule(is_fist, position, velocity) ==
    IF is_fist
    THEN Some(GestureIntent(GRAB_OBJECT, 90, position, Dict1("velocity", velocity)))
    ELSE None

\* Release on any open palm, whatever came before.
ReleaseRule_AnyLast(is_open_palm, last, position) ==
    IF is_open_palm
    THEN Some(GestureIntent(RELEASE_OBJECT, 90, position, EmptyDict))
    ELSE None

ReleaseRule(is_open_palm, last, position) ==
    IF is_open_palm /\ last # None /\ Val(last).intent_type = GRAB_OBJECT
    THEN Some(GestureIntent(RELEASE_OBJECT, 90, position, EmptyDict))
    ELSE None

\* Rule 3: a swipe direction the intent_map knows.
SwipeRule(swipe_direction, position) ==
    IF StrTruthy(swipe_direction)
          /\ IntentMapGet(Val(swipe_direction)) # UNKNOWN
    THEN Some(GestureIntent(IntentMapGet(Val(swipe_direction)), 85, position,
                            Dict1("direction", Val(swipe_direction))))
    ELSE None

ClickRule(is_index_pointing, position) ==
    IF is_index_pointing
    THEN Some(GestureIntent(CLICK, 80, position, EmptyDict))
    ELSE None

HoverRule(is_open_palm, position) ==
    IF is_open_palm
    THEN Some(GestureIntent(HOVER_OBJECT, 70, position, EmptyDict))
    ELSE None

\* Rule 6: fist with movement.
DragRule(is_fist, position, velocity) ==
    IF is_fist /\ VelocityMoves(velocity)
    THEN Some(GestureIntent(DRAG, 85, position, Dict1("velocity", velocity)))
    ELSE None

\* The first rule, in order, that returns.
FirstOf(rules, default) ==
    LET hits == { i \in 1..Len(rules) : rules[i] # None }
    IN IF hits = {} THEN default
       ELSE Val(rules[CHOOSE i \in hits : \A j \in hits : i <= j])

\* What each if of process_gesture would return for gesture_data gd.
RulesOf(gd, last) ==
    LET is_fist == Get(gd, "fist", FALSE)
        is_open_palm == Get(gd, "open_palm", FALSE)
        is_index_pointing == Get(gd, "index_pointing", FALSE)
        swipe_direction == Get(gd, "swipe_direction", None)
        position == Some(Get(gd, "position", DefaultPosition))
        velocity == Get(gd, "velocity", ZeroVelocity)
    IN [ grab |-> GrabRule(is_fist, position, velocity),
         release |-> ReleaseRule(is_open_palm, last, position),
         swipe |-> SwipeRule(swipe_direction, position),
         click |-> ClickRule(is_index_pointing, position),
         hover |-> HoverRule(is_open_palm, position),
         drag |-> DragRule(is_fist, position, velocity),
         unknown |-> GestureIntent(UNKNOWN, 0, position, EmptyDict) ]

\* The rules in another order: release, hover or drag tried too early.
process_gesture_ReleaseFirst(gd, last) ==
    LET r == RulesOf(gd, last)
    IN FirstOf(<< r.release, r.grab, r.swipe, r.click, r.hover, r.drag >>, r.unknown)

process_gesture_HoverBeforeClick(gd, last) ==
    LET r == RulesOf(gd, last)
    IN FirstOf(<< r.grab, r.release, r.swipe, r.hover, r.click, r.drag >>, r.unknown)

process_gesture_DragFirst(gd, last) ==
    LET r == RulesOf(gd, last)
    IN FirstOf(<< r.drag, r.grab, r.release, r.swipe, r.click, r.hover >>, r.unknown)

\* IntentProcessor.process_gesture(gesture_data) with self.last_intent = last
process_gesture(gd, last) ==
    LET r == RulesOf(gd, last)
    IN FirstOf(<< r.grab, r.release, r.swipe, r.click, r.hover, r.drag >>, r.unknown)

(***************************************************************************)
(* object.py                                                               *)
(***************************************************************************)
IDLE == "idle"
HOVERED == "hovered"
GRABBED == "grabbed"
SELECTED == "selected"

\* The number of VirtualObjects the scene is built from.
NumObjects == 2
ObjIds == 1..NumObjects

\* Hand positions the callers pass in: x in {0.0, 0.5, 1.0}; grabs and drags
\* at y = 1.0 and z = 0.8, hovers at y in {0.5, 1.0}.
HandXs == { 0, One \div 2, One }
HandYs == { One }
HandZs == { (8 * One) \div 10 }
HoverYs == { One \div 2, One }

\* max(0.0, min(1.0, v))
Clamp01(v) == Max(0, Min(One, v))

\* VirtualObject.__init__
NewVirtualObject(obj_id) ==
    [ id |-> obj_id, x |-> One \div 2, y |-> One \div 2, z |-> (3 * One) \div 10,
      state |-> IDLE, size |-> One \div 10, hover_glow |-> FALSE,
      grab_offset |-> None ]

\* VirtualObject.update_state
update_state(o, new_state) ==
    [ o EXCEPT !.state = new_state,
               !.hover_glow = (new_state = HOVERED \/ new_state = GRABBED) ]

\* VirtualObject.set_grab_offset
set_grab_offset(o, hand_x, hand_y, hand_z) ==
    [ o EXCEPT !.grab_offset = Some(<< hand_x - o.x, hand_y - o.y, hand_z - o.z >>) ]

\* VirtualObject.clear_grab_offset
clear_grab_offset(o) == [ o EXCEPT !.grab_offset = None ]

\* An update_from_hand that puts the object's origin at the hand.
update_from_hand_Snaps(o, hand_x, hand_y, hand_z) ==
    IF o.grab_offset # None
    THEN [ o EXCEPT !.x = Clamp01(hand_x), !.y = Clamp01(hand_y),
                    !.z = Clamp01(hand_z) ]
    ELSE o

\* VirtualObject.update_from_hand: an offset tuple is always truthy.
update_from_hand(o, hand_x, hand_y, hand_z) ==
    IF o.grab_offset # None
    THEN [ o EXCEPT !.x = Clamp01(hand_x - Val(o.grab_offset)[1]),
                    !.y = Clamp01(hand_y - Val(o.grab_offset)[2]),
                    !.z = Clamp01(hand_z - Val(o.grab_offset)[3]) ]
    ELSE o

\* VirtualObject.is_point_inside: abs(d) < size / 2
is_point_inside(o, x, y) ==
    /\ 2 * Abs(x - o.x) < o.size
    /\ 2 * Abs(y - o.y) < o.size

\* A find_object_at_point that goes through the list as it is, unsorted.
find_object_at_point_ListOrder(objs, heap, x, y) ==
    LET inside == { i \in 1..Len(objs) : is_point_inside(heap[objs[i]], x, y) }
    IN IF inside = {} THEN None
       ELSE Some(objs[CHOOSE i \in inside : \A j \in inside : i <= j])

\* ObjectManager.find_object_at_point: the list sorted by z (a stable sort),
\* then the first object containing the point.
find_object_at_point(objs, heap, x, y) ==
    LET inside == { i \in 1..Len(objs) : is_point_inside(heap[objs[i]], x, y) }
        before(i, j) == \/ heap[objs[i]].z < heap[objs[j]].z
                        \/ heap[objs[i]].z = heap[objs[j]].z /\ i <= j
    IN IF inside = {} THEN None
       ELSE Some(objs[CHOOSE i \in inside : \A j \in inside : before(i, j)])

\* The square of VirtualObject.distance_to
Distance2To(o, x, y, z) ==
    (o.x - x) * (o.x - x) + (o.y - y) * (o.y - y) + (o.z - z) * (o.z - z)

\* ObjectManager.find_nearest_object with max_distance = num/den: the first
\* object at the least distance, if that distance is under max_distance.
find_nearest_object(objs, heap, x, y, z, num, den) ==
    LET near == { i \in 1..Len(objs) :
                    den * den * Distance2To(heap[objs[i]], x, y, z)
                        < num * num * One * One }
        best == { i \in near : \A j \in near :
                    Distance2To(heap[objs[i]], x, y, z)
                        <= Distance2To(heap[objs[j]], x, y, z) }
    IN IF near = {} THEN None
       ELSE Some(objs[CHOOSE i \in best : \A j \in best : i <= j])

InList(objs, o) == \E i \in 1..Len(objs) : objs[i] = o

\* The list comprehension of remove_object.
WithoutId(objs, heap, obj_id) ==
    SelectSeq(objs, LAMBDA o : heap[o].id # obj_id)

\* ObjectManager.add_object
add_object(o) ==
    /\ ~InList(objects, o)
    /\ objects' = Append(objects, o)
    /\ UNCHANGED << vobj, selected_object, grabbed_object >>

\* What remove_object leaves in grabbed_object.
GrabbedAfterRemove(grabbed, heap, obj_id) ==
    IF grabbed # None /\ heap[Val(grabbed)].id = obj_id THEN None ELSE grabbed

\* ObjectManager.remove_object
remove_object(obj_id) ==
    /\ objects' = WithoutId(objects, vobj, obj_id)
    /\ selected_object' =
          IF selected_object # None /\ vobj[Val(selected_object)].id = obj_id
          THEN None ELSE selected_object
    /\ grabbed_object' = GrabbedAfterRemove(grabbed_object, vobj, obj_id)
    /\ UNCHANGED vobj

\* grab_object without the release of the previously grabbed object.
GrabHeap_KeepsPrevious(heap, grabbed, o, hand_x, hand_y, hand_z) ==
    [ heap EXCEPT ![o] =
        set_grab_offset(update_state(heap[o], GRABBED), hand_x, hand_y, hand_z) ]

\* The heap after grab_object(obj, hand): the previously grabbed object, if
\* another one, goes IDLE and loses its offset; obj becomes GRABBED.
GrabHeap(heap, grabbed, o, hand_x, hand_y, hand_z) ==
    LET released ==
            IF grabbed # None /\ Val(grabbed) # o
            THEN [ heap EXCEPT ![Val(grabbed)] =
                       clear_grab_offset(update_state(heap[Val(grabbed)], IDLE)) ]
            ELSE heap
    IN [ released EXCEPT ![o] =
             set_grab_offset(update_state(released[o], GRABBED),
                             hand_x, hand_y, hand_z) ]

\* ObjectManager.grab_object
grab_object(o, hand_x, hand_y, hand_z) ==
    /\ InList(objects, o)
    /\ vobj' = GrabHeap(vobj, grabbed_object, o, hand_x, hand_y, hand_z)
    /\ grabbed_object' = Some(o)
    /\ UNCHANGED << objects, selected_object >>

\* The heap after release_object.
ReleaseHeap(heap, grabbed) ==
    IF grabbed # None
    THEN [ heap EXCEPT ![Val(grabbed)] =
               clear_grab_offset(update_state(heap[Val(grabbed)], IDLE)) ]
    ELSE heap

\* ObjectManager.release_object
release_object ==
    /\ vobj' = ReleaseHeap(vobj, grabbed_object)
    /\ grabbed_object' = None
    /\ UNCHANGED << objects, selected_object >>

\* The heap after update_hover: hovered objects of the list go IDLE, then the
\* object at the hand, if nothing is grabbed, becomes HOVERED.
HoverHeap(heap, objs, grabbed, hand_x, hand_y) ==
    LET cleared == [ o \in DOMAIN heap |->
                       IF InList(objs, o) /\ heap[o].state = HOVERED
                       THEN update_state(heap[o], IDLE) ELSE heap[o] ]
        hovered == find_object_at_point(objs, cleared, hand_x, hand_y)
    IN IF grabbed = None /\ hovered # None
       THEN [ cleared EXCEPT ![Val(hovered)] =
                  update_state(cleared[Val(hovered)], HOVERED) ]
       ELSE cleared

\* ObjectManager.update_hover
update_hover(hand_x, hand_y) ==
    /\ vobj' = HoverHeap(vobj, objects, grabbed_object, hand_x, hand_y)
    /\ UNCHANGED << objects, selected_object, grabbed_object >>

\* ObjectManager.update_grabbed_object
update_grabbed_object(hand_x, hand_y, hand_z) ==
    /\ vobj' = IF grabbed_object # None
               THEN [ vobj EXCEPT ![Val(grabbed_object)] =
                          update_from_hand(vobj[Val(grabbed_object)],
                                           hand_x, hand_y, hand_z) ]
               ELSE vobj
    /\ UNCHANGED << objects, selected_object, grabbed_object >>

(***************************************************************************)
(* window_manager.py                                                       *)
(***************************************************************************)
\* pyautogui.size(), read once by WindowManager.__init__
ScreenWidth == 1200
ScreenHeight == 600

\* WindowManager.update_interval, 0.5 s, in tenths of a second
UpdateInterval == 5

\* int(n / d): truncation toward zero
IntTrunc(n, d) == IF n >= 0 THEN n \div d ELSE -((-n) \div d)

\* int(x * screen_width) for a normalized x in units of 1/One
ToScreen(x, extent) == IntTrunc(x * extent, One)

\* WindowInfo.__init__
WindowInfo(hwnd, left, top, right, bottom) ==
    [ hwnd |-> hwnd, left |-> left, top |-> top, right |-> right,
      bottom |-> bottom, width |-> right - left, height |-> bottom - top,
      center_x |-> left + (right - left) \div 2,
      center_y |-> top + (bottom - top) \div 2 ]

\* WindowInfo.get_normalized_position, in units of 1/One (the centers of the
\* model's windows make the quotients exact)
get_normalized_position(w, screen_width, screen_height) ==
    << (w.center_x * One) \div screen_width, (w.center_y * One) \div screen_height >>

\* WindowManager.get_all_windows: the cached list, re-enumerated from the
\* desktop when more than update_interval has passed.  wm is the record
\* [windows, last_update_time], desk the visible titled windows in
\* enumeration (z) order, each enumerated into a fresh WindowInfo.
get_all_windows(wm, desk, t) ==
    IF t - wm.last_update_time > UpdateInterval
    THEN [ windows |-> desk, last_update_time |-> t ]
    ELSE wm

\* The first index of a non-empty set of indices.
FirstIndex(S) == CHOOSE i \in S : \A j \in S : i <= j

\* WindowManager.find_window_at_position over the list get_all_windows returned
find_window_at_position(windows, x, y) ==
    LET screen_x == ToScreen(x, ScreenWidth)
        screen_y == ToScreen(y, ScreenHeight)
        hits == { i \in 1..Len(windows) :
                    /\ windows[i].left <= screen_x /\ screen_x <= windows[i].right
                    /\ windows[i].top <= screen_y /\ screen_y <= windows[i].bottom }
    IN IF hits = {} THEN None ELSE Some(windows[FirstIndex(hits)])

\* Squared pixel distance from a window's center to a screen point.
Dist2(w, screen_x, screen_y) ==
    (w.center_x - screen_x) * (w.center_x - screen_x)
        + (w.center_y - screen_y) * (w.center_y - screen_y)

\* WindowManager.find_nearest_window with max_distance = num/den: the loop
\* keeps the first window strictly nearer than everything before it, so the
\* result is the first window at the least distance, if that distance is
\* under max_distance * min(screen_width, screen_height).
find_nearest_window(windows, x, y, num, den) ==
    LET screen_x == ToScreen(x, ScreenWidth)
        screen_y == ToScreen(y, ScreenHeight)
        limit == num * Min(ScreenWidth, ScreenHeight)
        near == { i \in 1..Len(windows) :
                    den * den * Dist2(windows[i], screen_x, screen_y) < limit * limit }
        best == { i \in near : \A j \in near :
                    Dist2(windows[i], screen_x, screen_y)
                        <= Dist2(windows[j], screen_x, screen_y) }
    IN IF near = {} THEN None ELSE Some(windows[FirstIndex(best)])

IndexOfHwnd(desk, hwnd) ==
    LET S == { i \in 1..Len(desk) : desk[i].hwnd = hwnd }
    IN IF S = {} THEN 0 ELSE FirstIndex(S)

\* The desktop with the window at index i raised to the top of the z order.
Raised(desk, i) ==
    << desk[i] >> \o SelectSeq(desk, LAMBDA w : w.hwnd # desk[i].hwnd)

\* WindowManager.bring_window_to_front (WIN32_AVAILABLE): the Win32 calls
\* raise the window, or fail, and a failure is printed and swallowed.
bring_window_to_front(desk, win, ok) ==
    LET i == IndexOfHwnd(desk, win.hwnd)
    IN IF ok /\ i # 0 THEN Raised(desk, i) ELSE desk

\* WindowManager.move_window (WIN32_AVAILABLE): center the window at (x, y),
\* clamped to the screen, with the size the WindowInfo recorded; SetWindowPos
\* with HWND_TOP also raises it.  A failure is printed and swallowed.
move_window(desk, win, x, y, ok) ==
    LET i == IndexOfHwnd(desk, win.hwnd)
        screen_x == ToScreen(x, ScreenWidth)
        screen_y == ToScreen(y, ScreenHeight)
        new_left == Max(0, Min(ScreenWidth - win.width, screen_x - win.width \div 2))
        new_top == Max(0, Min(ScreenHeight - win.height, screen_y - win.height \div 2))
        moved == WindowInfo(win.hwnd, new_left, new_top,
                            new_left + desk[i].width, new_top + desk[i].height)
    IN IF ok /\ i # 0
       THEN << moved >> \o SelectSeq(desk, LAMBDA w : w.hwnd # win.hwnd)
       ELSE desk

(***************************************************************************)
(* menu_system.py (the part the controller drives)                         *)
(***************************************************************************)
\* RadialMenu.__init__ then RadialMenu.open(x, y), for the menu
\* _handle_open_menu builds for a window
OpenedMenu(window, x, y) ==
    [ menu_type |-> "object_menu",
      options |-> << "Close", "Minimize", "Maximize", "Bring to Front" >>,
      hwnd |-> window.hwnd, is_open |-> TRUE, position |-> Some(<< x, y >>),
      selected_index |-> None ]

\* ---- RadialMenu and MenuManager on their own
\* The RadialMenus the callers create.
NumMenus == 3
MenuIds == 1..NumMenus

\* MenuManager.create_menu without custom options: the menu's type and the
\* number of options of its template (none for a type without template).
MenuTypeOf(m) ==
    CASE m = 1 -> "object_menu" [] m = 2 -> "system_menu" [] OTHER -> "context_menu"
TemplateSize(menu_type) ==
    CASE menu_type = "object_menu" -> 4 [] menu_type = "system_menu" -> 3 [] OTHER -> 0

\* RadialMenu.__init__
NewRadialMenu(menu_type, num_options) ==
    [ menu_type |-> menu_type, num_options |-> num_options, is_open |-> FALSE,
      selected_index |-> None, position |-> None ]
create_menu(m) == NewRadialMenu(MenuTypeOf(m), TemplateSize(MenuTypeOf(m)))

\* RadialMenu.open
radial_open(menu, x, y) ==
    [ menu EXCEPT !.is_open = TRUE, !.position = Some(<< x, y >>),
                  !.selected_index = None ]
\* RadialMenu.close
radial_close(menu) ==
    [ menu EXCEPT !.is_open = FALSE, !.position = None, !.selected_index = None ]
\* RadialMenu.select_option
radial_select_option(menu, index) ==
    IF 0 <= index /\ index < menu.num_options
    THEN [ menu EXCEPT !.selected_index = Some(index) ]
    ELSE menu
\* RadialMenu.execute_selected; action_ok is whether option.action() returns
\* (a raise leaves the menu as it is)
radial_execute_selected(menu, action_ok) ==
    IF menu.selected_index # None /\ action_ok THEN radial_close(menu) ELSE menu

\* 3.14159 / 2, with angles counted in units of 0.000005 rad
HalfPi == 314159
Pi == 2 * HalfPi

\* An open_menu that leaves the previous menu as it is.
open_menu_KeepsPrevious(mm, m, x, y) ==
    [ menus |-> [ mm.menus EXCEPT ![m] = radial_open(mm.menus[m], x, y) ],
      active_menu |-> Some(m) ]

\* MenuManager.open_menu; mm is the record [menus, active_menu]
open_menu(mm, m, x, y) ==
    LET closed == IF mm.active_menu # None
                  THEN [ mm.menus EXCEPT ![Val(mm.active_menu)] =
                             radial_close(mm.menus[Val(mm.active_menu)]) ]
                  ELSE mm.menus
    IN [ menus |-> [ closed EXCEPT ![m] = radial_open(closed[m], x, y) ],
         active_menu |-> Some(m) ]

\* MenuManager.close_menu
close_menu(mm) ==
    IF mm.active_menu # None
    THEN [ menus |-> [ mm.menus EXCEPT ![Val(mm.active_menu)] =
                           radial_close(mm.menus[Val(mm.active_menu)]) ],
           active_menu |-> None ]
    ELSE mm

\* The index select_menu_option computes from an angle, for num_options > 0.
OptionIndex(angle, num_options) ==
    LET turned == ((angle % (2 * Pi)) + HalfPi) % (2 * Pi)
    IN ((turned * num_options) \div (2 * Pi)) % num_options

\* MenuManager.select_menu_option: 2 * 3.14159 / num_options divides by zero
\* for a menu without options
select_menu_option(mm, angle) ==
    IF mm.active_menu = None \/ ~mm.menus[Val(mm.active_menu)].is_open
    THEN Returns(mm)
    ELSE LET a == Val(mm.active_menu)
         IN IF mm.menus[a].num_options = 0 THEN Raises("ZeroDivisionError")
            ELSE Returns([ mm EXCEPT !.menus[a] =
                     radial_select_option(mm.menus[a],
                         OptionIndex(angle, mm.menus[a].num_options)) ])

\* MenuManager.execute_menu_action
execute_menu_action(mm, action_ok) ==
    IF mm.active_menu # None
    THEN LET a == Val(mm.active_menu)
             menu == radial_execute_selected(mm.menus[a], action_ok)
         IN IF mm.menus[a].selected_index # None /\ ~action_ok
            THEN mm
            ELSE [ menus |-> [ mm.menus EXCEPT ![a] = menu ],
                   active_menu |-> IF ~menu.is_open THEN None ELSE mm.active_menu ]
    ELSE mm

\* MenuManager.__init__, with the menus created and none opened yet.
InitMenus ==
    /\ menus = [ m \in MenuIds |-> create_menu(m) ]
    /\ active_menu = None
    /\ opened = {}

(***************************************************************************)
(* object_controller.py                                                    *)
(*                                                                         *)
(* A controller c is the record of ObjectController's fields, with its     *)
(* WindowManager's (windows, last_update_time) and its MenuManager's       *)
(* active_menu.  A world is the controller, the desktop it acts on and the *)
(* commands it issued to the window system in the current step.            *)
(***************************************************************************)
\* ObjectController.__init__
NewController ==
    [ hand_x |-> One \div 2, hand_y |-> One \div 2, hand_z |-> (3 * One) \div 10,
      grabbed_window |-> None, grab_offset |-> None, active_menu |-> None,
      windows |-> << >>, last_update_time |-> 0 ]

\* ObjectController.update_hand_position(*position)
update_hand_position(c, position) ==
    [ c EXCEPT !.hand_x = Clamp01(position[1]),
               !.hand_y = Clamp01(position[2]),
               !.hand_z = Clamp01(position[3]) ]

WithWindows(c, wm) ==
    [ c EXCEPT !.windows = wm.windows, !.last_update_time = wm.last_update_time ]

WmOf(c) == [ windows |-> c.windows, last_update_time |-> c.last_update_time ]

Issue(w, command) == [ w EXCEPT !.issued = Append(w.issued, command) ]

\* The offset _handle_grab records: hand minus the window's normalized center.
GrabOffset(c, window) ==
    LET pos == get_normalized_position(window, ScreenWidth, ScreenHeight)
    IN << c.hand_x - pos[1], c.hand_y - pos[2] >>

\* A _handle_grab that lets go of the window it holds when it finds none.
handle_grab_DropsOnMiss(w, t, ok) ==
    LET wm == get_all_windows(WmOf(w.c), w.desktop, t)
        c == WithWindows(w.c, wm)
        nearest_window == find_nearest_window(wm.windows, c.hand_x, c.hand_y, 1, 4)
    IN IF nearest_window # None
       THEN Issue([ w EXCEPT
                      !.c = [ c EXCEPT !.grabbed_window = nearest_window,
                                       !.grab_offset =
                                           Some(GrabOffset(c, Val(nearest_window))) ],
                      !.desktop = bring_window_to_front(w.desktop,
                                                        Val(nearest_window), ok) ],
                  [ cmd |-> "bring_to_front", hwnd |-> Val(nearest_window).hwnd,
                    x |-> 0, y |-> 0 ])
       ELSE [ w EXCEPT !.c = [ c EXCEPT !.grabbed_window = None,
                                        !.grab_offset = None ] ]

\* A _handle_grab whose bookkeeping depends on the window system obeying.
handle_grab_OnlyOnSuccess(w, t, ok) ==
    LET wm == get_all_windows(WmOf(w.c), w.desktop, t)
        c == WithWindows(w.c, wm)
        nearest_window == find_nearest_window(wm.windows, c.hand_x, c.hand_y, 1, 4)
    IN IF nearest_window # None
       THEN Issue([ w EXCEPT
                      !.c = IF ok
                            THEN [ c EXCEPT !.grabbed_window = nearest_window,
                                            !.grab_offset =
                                                Some(GrabOffset(c, Val(nearest_window))) ]
                            ELSE c,
                      !.desktop = bring_window_to_front(w.desktop,
                                                        Val(nearest_window), ok) ],
                  [ cmd |-> "bring_to_front", hwnd |-> Val(nearest_window).hwnd,
                    x |-> 0, y |-> 0 ])
       ELSE [ w EXCEPT !.c = c ]

\* ObjectController._handle_grab
handle_grab(w, t, ok) ==
    LET wm == get_all_windows(WmOf(w.c), w.desktop, t)
        c == WithWindows(w.c, wm)
        nearest_window == find_nearest_window(wm.windows, c.hand_x, c.hand_y, 1, 4)
    IN IF nearest_window # None
       THEN Issue([ w EXCEPT
                      !.c = [ c EXCEPT !.grabbed_window = nearest_window,
                                       !.grab_offset =
                                           Some(GrabOffset(c, Val(nearest_window))) ],
                      !.desktop = bring_window_to_front(w.desktop,
                                                        Val(nearest_window), ok) ],
                  [ cmd |-> "bring_to_front", hwnd |-> Val(nearest_window).hwnd,
                    x |-> 0, y |-> 0 ])
       ELSE [ w EXCEPT !.c = c ]

\* A release that forgets the offset.
handle_release_KeepsOffset(w) ==
    IF w.c.grabbed_window # None
    THEN [ w EXCEPT !.c.grabbed_window = None ]
    ELSE w

\* ObjectController._handle_release
handle_release(w) ==
    IF w.c.grabbed_window # None
    THEN [ w EXCEPT !.c.grabbed_window = None, !.c.grab_offset = None ]
    ELSE w

\* ObjectController._handle_hover: looks the window up and does nothing with it
handle_hover(w, t) ==
    [ w EXCEPT !.c = WithWindows(w.c, get_all_windows(WmOf(w.c), w.desktop, t)) ]

\* ObjectController._handle_drag
handle_drag(w, ok) ==
    IF w.c.grabbed_window # None /\ w.c.grab_offset # None
    THEN LET target_x == w.c.hand_x - Val(w.c.grab_offset)[1]
             target_y == w.c.hand_y - Val(w.c.grab_offset)[2]
         IN Issue([ w EXCEPT !.desktop =
                        move_window(w.desktop, Val(w.c.grabbed_window),
                                    target_x, target_y, ok) ],
                  [ cmd |-> "move_window", hwnd |-> Val(w.c.grabbed_window).hwnd,
                    x |-> target_x, y |-> target_y ])
    ELSE w

\* ObjectController._handle_open_menu; MenuManager.open_menu closes the
\* previous menu and makes the new one active
handle_open_menu(w, t) ==
    LET wm == get_all_windows(WmOf(w.c), w.desktop, t)
        c == WithWindows(w.c, wm)
        window == find_window_at_position(wm.windows, c.hand_x, c.hand_y)
    IN IF window # None
       THEN [ w EXCEPT !.c = [ c EXCEPT !.active_menu =
                                   Some(OpenedMenu(Val(window), c.hand_x, c.hand_y)) ] ]
       ELSE [ w EXCEPT !.c = c ]

\* ObjectController._handle_close_menu -> MenuManager.close_menu
handle_close_menu(w) == [ w EXCEPT !.c.active_menu = None ]

\* ObjectController.process_intent at time t; ok is whether the window
\* system carries out the command the handler issues
process_intent(w0, i, t, ok) ==
    LET w == IF i.position # None
             THEN [ w0 EXCEPT !.c = update_hand_position(w0.c, Val(i.position)) ]
             ELSE w0
    IN CASE i.intent_type = GRAB_OBJECT -> handle_grab(w, t, ok)
         [] i.intent_type = RELEASE_OBJECT -> handle_release(w)
         [] i.intent_type = HOVER_OBJECT -> handle_hover(w, t)
         [] i.intent_type = OPEN_MENU -> handle_open_menu(w, t)
         [] i.intent_type = CLOSE_MENU -> handle_close_menu(w)
         [] i.intent_type = DRAG -> handle_drag(w, ok)
         [] OTHER -> w

(***************************************************************************)
(* gesture_control.py : classify_gesture                                   *)
(*                                                                         *)
(* Landmarks are records [x, y] in units of 1/One; the comparisons of      *)
(* distances are made on their squares, and a factor like 1.15 on both     *)
(* sides multiplied out, so that every comparison is exact.                *)
(***************************************************************************)
\* The square of distance(a, b) = math.hypot(a.x - b.x, a.y - b.y)
distance2(a, b) == (a.x - b.x) * (a.x - b.x) + (a.y - b.y) * (a.y - b.y)

MaxOf(S) == CHOOSE v \in S : \A u \in S : u <= v
MinOf(S) == CHOOSE v \in S : \A u \in S : v <= u

\* wrist, thumb_mcp, index_mcp, middle_mcp, ring_mcp, pinky_mcp
KeyXPositions(landmarks) == { landmarks[k + 1].x : k \in { 0, 2, 5, 9, 13, 17 } }
KeyYPositions(landmarks) == { landmarks[k + 1].y : k \in { 0, 2, 5, 9, 13, 17 } }
horizontal_spread(landmarks) ==
    MaxOf(KeyXPositions(landmarks)) - MinOf(KeyXPositions(landmarks))
vertical_spread(landmarks) ==
    MaxOf(KeyYPositions(landmarks)) - MinOf(KeyYPositions(landmarks))

\* thumb_extended; handedness is None or Some(label)
thumb_extended(landmarks, handedness) ==
    LET thumb_tip == landmarks[5]
        thumb_ip == landmarks[4]
        thumb_mcp == landmarks[3]
        is_horizontal_temp ==
            100 * horizontal_spread(landmarks) > 115 * vertical_spread(landmarks)
        hand_top_temp == MinOf(KeyYPositions(landmarks))
    IN IF ~is_horizontal_temp
       THEN \/ thumb_tip.y < thumb_mcp.y - One \div 20
            \/ thumb_tip.y < hand_top_temp - One \div 50
       ELSE /\ 4 * distance2(thumb_tip, thumb_mcp) > 9 * distance2(thumb_ip, thumb_mcp)
            /\ IF handedness # None
               THEN IF Val(handedness) = "Left"
                    THEN thumb_tip.x > thumb_ip.x + One \div 20
                    ELSE thumb_tip.x < thumb_ip.x - One \div 20
               ELSE Abs(thumb_tip.x - thumb_ip.x) > One \div 20

\* fingers_extended: the thumb, then pip.y - tip.y > 0.01 for the index,
\* middle, ring and pinky fingers
fingers_extended(landmarks, handedness) ==
    [ k \in 1..5 |->
        IF k = 1 THEN IF thumb_extended(landmarks, handedness) THEN 1 ELSE 0
        ELSE IF landmarks[4 * k - 1].y - landmarks[4 * k + 1].y > One \div 100
             THEN 1 ELSE 0 ]

\* What the rules of classify_gesture look at.
GestureFeatures(landmarks, handedness) ==
    LET wrist == landmarks[1]
        thumb_tip == landmarks[5]
        thumb_mcp == landmarks[3]
        index_tip == landmarks[9]
        middle_mcp == landmarks[10]
        fingers == fingers_extended(landmarks, handedness)
        hand_top == MinOf(KeyYPositions(landmarks))
    IN [ fingers_extended |-> fingers,
         fingers_count |-> fingers[1] + fingers[2] + fingers[3] + fingers[4] + fingers[5],
         \* pinch_dist < hand_size * 0.12
         pinch_close |-> 625 * distance2(thumb_tip, index_tip)
                            < 9 * distance2(wrist, middle_mcp),
         \* horizontal_spread > vertical_spread * 1.2
         is_horizontal |-> 10 * horizontal_spread(landmarks)
                              > 12 * vertical_spread(landmarks),
         thumb_is_up |-> \/ thumb_tip.y < hand_top + One \div 20
                         \/ thumb_tip.y < thumb_mcp.y - (3 * One) \div 50 ]

\* A pinch check that does not look at the other fingers.
PinchRule_AnyFingers(f) == f.pinch_close

\* The pinch check
PinchRule(f) ==
    /\ f.pinch_close
    /\ f.fingers_extended[3] = 0 /\ f.fingers_extended[4] = 0
    /\ f.fingers_extended[5] = 0

\* A thumbs-up rule that does not look at the hand's orientation.
ThumbsUpRule_AnyOrientation(f) ==
    f.fingers_extended = << 1, 0, 0, 0, 0 >> /\ f.thumb_is_up

\* The thumbs-up rule
ThumbsUpRule(f) ==
    f.fingers_extended = << 1, 0, 0, 0, 0 >> /\ f.thumb_is_up /\ ~f.is_horizontal

\* classify_gesture: the pair (label, fingers_extended)
classify_gesture(landmarks, handedness) ==
    LET f == GestureFeatures(landmarks, handedness)
        label == IF PinchRule(f) THEN "pinch"
                 ELSE IF ThumbsUpRule(f) THEN "thumbs_up"
                 ELSE IF f.fingers_count = 0 THEN "fist"
                 ELSE IF f.fingers_count <= 1 /\ f.is_horizontal THEN "fist"
                 ELSE IF f.fingers_count = 5 THEN "open"
                 ELSE "unknown"
    IN << label, f.fingers_extended >>

\* Before the first frame with a hand.
InitGesture ==
    /\ given = None
    /\ gesture = None

(***************************************************************************)
(* utils.py : SlidingBuffer                                                *)
(***************************************************************************)
\* A deque that drops the value offered once it is full.
BufferAppend_DropsNewest(buffer, maxlen, value) ==
    IF Len(buffer) >= maxlen THEN buffer ELSE Append(buffer, value)

\* deque.append on a deque(maxlen): the oldest value is evicted, and a
\* deque of maxlen 0 stays empty
BufferAppend(buffer, maxlen, value) ==
    IF maxlen = 0 THEN buffer
    ELSE IF Len(buffer) >= maxlen
    THEN Append(SubSeq(buffer, 2, Len(buffer)), value)
    ELSE Append(buffer, value)

\* SlidingBuffer(maxlen)
SlidingBuffer(maxlen) == [ maxlen |-> maxlen, buffer |-> << >> ]

\* SlidingBuffer.append
buffer_append(b, value) ==
    [ b EXCEPT !.buffer = BufferAppend(b.buffer, b.maxlen, value) ]

\* SlidingBuffer.get
buffer_get(b) == b.buffer

\* SlidingBuffer.get_first, get_last
buffer_get_first(b) == IF Len(b.buffer) > 0 THEN Some(b.buffer[1]) ELSE None
buffer_get_last(b) == IF Len(b.buffer) > 0 THEN Some(b.buffer[Len(b.buffer)]) ELSE None

\* SlidingBuffer.clear
buffer_clear(b) == [ b EXCEPT !.buffer = << >> ]

\* SlidingBuffer.is_full
buffer_is_full(b) == Len(b.buffer) >= b.maxlen

\* SlidingBuffer.size
buffer_size(b) == Len(b.buffer)

(***************************************************************************)
(* gestures.py                                                             *)
(*                                                                         *)
(* The predicates read the landmarks only through tip.y < pip.y of the     *)
(* index, middle, ring and pinky fingers: ext[k] is that comparison for    *)
(* finger k (1 = index .. 4 = pinky) of a full 21-landmark hand.           *)
(***************************************************************************)
Fingers == 1..4

\* gestures.is_fist: no tip above its PIP
is_fist(ext) == \A k \in Fingers : ~ext[k]

\* An open-palm test that asks for no extended finger at all.
is_open_palm_NoneNeeded(ext) == Cardinality({ k \in Fingers : ext[k] }) >= 0

\* gestures.is_open_palm: at least 3 of the 4 fingers extended
is_open_palm(ext) == Cardinality({ k \in Fingers : ext[k] }) >= 3

\* gestures.is_index_pointing: index extended, the other three not
is_index_pointing(ext) == ext[1] /\ \A k \in 2..4 : ~ext[k]

\* ---- the predicates on the landmarks themselves
\* lm is None or a list of points [x, y]; lm[k] of the code is At(lm, k).
At(landmarks, k) == landmarks[k + 1]

\* "not lm or len(lm) < 21"
TooFewLandmarks(landmarks) ==
    landmarks = None \/ Len(Val(landmarks)) = 0 \/ Len(Val(landmarks)) < 21

\* tip.y < pip.y for the index, middle, ring and pinky fingers
\* (tips 8, 12, 16, 20; PIP joints 6, 10, 14, 18)
ExtOf(points) ==
    [ k \in Fingers |-> At(points, 4 * k + 4).y < At(points, 4 * k + 2).y ]

gestures_is_fist(landmarks) ==
    IF TooFewLandmarks(landmarks) THEN Returns(FALSE)
    ELSE Returns(is_fist(ExtOf(Val(landmarks))))

gestures_is_open_palm(landmarks) ==
    IF TooFewLandmarks(landmarks) THEN Returns(FALSE)
    ELSE Returns(is_open_palm(ExtOf(Val(landmarks))))

gestures_is_index_pointing(landmarks) ==
    IF TooFewLandmarks(landmarks) THEN Returns(FALSE)
    ELSE Returns(is_index_pointing(ExtOf(Val(landmarks))))

\* gestures.is_pointing_down: tip below its PIP and more than 0.05 below
\* the wrist
gestures_is_pointing_down(landmarks) ==
    IF TooFewLandmarks(landmarks) THEN Returns(FALSE)
    ELSE LET wrist == At(Val(landmarks), 0)
             index_tip == At(Val(landmarks), 8)
             index_pip == At(Val(landmarks), 6)
         IN IF ~(index_tip.y > index_pip.y) THEN Returns(FALSE)
            ELSE Returns(100 * (index_tip.y - wrist.y) > 5 * One)

\* wrist = lm[0]; index_tip = lm[8]; index_pip = lm[6] with no check of lm:
\* None is not subscriptable, and a short list has no index 8
LandmarksOfPointing(landmarks) ==
    IF landmarks = None THEN Raises("TypeError")
    ELSE IF Len(Val(landmarks)) < 9 THEN Raises("IndexError")
    ELSE Returns([ wrist |-> At(Val(landmarks), 0),
                   index_tip |-> At(Val(landmarks), 8),
                   index_pip |-> At(Val(landmarks), 6) ])

\* gestures.is_pointing_left: index extended and its tip more than 0.08 to
\* the left of the wrist
gestures_is_pointing_left(landmarks) ==
    LET got == LandmarksOfPointing(landmarks)
    IN IF got.raises # None THEN got
       ELSE LET p == Val(got.returns)
            IN IF ~(p.index_tip.y < p.index_pip.y) THEN Returns(FALSE)
               ELSE Returns(100 * (p.wrist.x - p.index_tip.x) > 8 * One)

\* gestures.is_pointing_right: the mirror image
gestures_is_pointing_right(landmarks) ==
    LET got == LandmarksOfPointing(landmarks)
    IN IF got.raises # None THEN got
       ELSE LET p == Val(got.returns)
            IN IF ~(p.index_tip.y < p.index_pip.y) THEN Returns(FALSE)
               ELSE Returns(100 * (p.index_tip.x - p.wrist.x) > 8 * One)

\* utils.get_landmark, get_index_mcp
get_landmark(landmarks, index) ==
    IF landmarks # None /\ Len(Val(landmarks)) # 0
       /\ 0 <= index /\ index < Len(Val(landmarks))
    THEN Some(At(Val(landmarks), index))
    ELSE None
get_index_mcp(landmarks) == get_landmark(landmarks, 5)

\* The frame-to-frame movements of a window, classified with the 0.008
\* deadband (positions in units of 1/One).
Steps(window) == 2..Len(window)
MovesRight(window) ==
    Cardinality({ i \in Steps(window) : 1000 * (window[i] - window[i-1]) > 8 * One })
\* A left count with a deadband of 0.02 instead of 0.008.
MovesLeft_WideDeadband(window) ==
    Cardinality({ i \in Steps(window) : 1000 * (window[i] - window[i-1]) < -20 * One })

MovesLeft(window) ==
    Cardinality({ i \in Steps(window) : 1000 * (window[i] - window[i-1]) < -8 * One })

\* max single-frame movement >= 0.015
PeakVelocityOk(window) ==
    \E i \in Steps(window) : 1000 * Abs(window[i] - window[i-1]) >= 15 * One

\* A decision without the branch for borderline consistency.
SwipeAccepted_NoBorderline(window, d, movements) ==
    LET num_frames == Len(window)
        consistency_threshold == Max(2, num_frames \div 2)
        avg_ok == 1000 * d >= 10 * One * num_frames
    IN movements >= consistency_threshold /\ (avg_ok \/ PeakVelocityOk(window))

\* One direction of detect_swipe's decision: d is the displacement in that
\* direction and movements the count of frames moving that way.
SwipeAccepted(window, d, movements) ==
    LET num_frames == Len(window)
        consistency_threshold == Max(2, num_frames \div 2)
        avg_ok == 1000 * d >= 10 * One * num_frames          \* avg >= 0.010
        fast_ok == 1000 * d >= 15 * One * num_frames         \* avg >= 0.015
    IN IF movements >= consistency_threshold
       THEN avg_ok \/ PeakVelocityOk(window)
       ELSE movements >= Max(1, consistency_threshold - 1) /\ fast_ok

\* A detector with min_displacement 0.02 instead of 0.06.
detect_swipe_LowDisplacement(buffer_list) ==
    IF Len(buffer_list) < 3 THEN None
    ELSE LET window_size == Min(5, Len(buffer_list))
             window == SubSeq(buffer_list, Len(buffer_list) - window_size + 1,
                              Len(buffer_list))
             dx == window[Len(window)] - window[1]
         IN IF 100 * dx > 2 * One
            THEN IF SwipeAccepted(window, dx, MovesRight(window))
                 THEN Some("swipe_right") ELSE None
            ELSE IF 100 * dx < -2 * One
            THEN IF SwipeAccepted(window, -dx, MovesLeft(window))
                 THEN Some("swipe_left") ELSE None
            ELSE None

\* A detector that looks at the whole history instead of its last 5 samples.
detect_swipe_WholeHistory(buffer_list) ==
    IF Len(buffer_list) < 3 THEN None
    ELSE LET window == buffer_list
             dx == window[Len(window)] - window[1]
         IN IF 100 * dx > 6 * One
            THEN IF SwipeAccepted(window, dx, MovesRight(window))
                 THEN Some("swipe_right") ELSE None
            ELSE IF 100 * dx < -6 * One
            THEN IF SwipeAccepted(window, -dx, MovesLeft(window))
                 THEN Some("swipe_left") ELSE None
            ELSE None

\* gestures.detect_swipe over the buffer's list
detect_swipe(buffer_list) ==
    IF Len(buffer_list) < 3 THEN None
    ELSE LET window_size == Min(5, Len(buffer_list))
             window == SubSeq(buffer_list, Len(buffer_list) - window_size + 1,
                              Len(buffer_list))
             dx == window[Len(window)] - window[1]
         IN IF 100 * dx > 6 * One
            THEN IF SwipeAccepted(window, dx, MovesRight(window))
                 THEN Some("swipe_right") ELSE None
            ELSE IF 100 * dx < -6 * One
            THEN IF SwipeAccepted(window, -dx, MovesLeft(window))
                 THEN Some("swipe_left") ELSE None
            ELSE None

(***************************************************************************)
(* cursor.py (the state the loops reset)                                   *)
(***************************************************************************)
\* The module-level smoothing and drag state at import
NewCursor ==
    [ smooth_x |-> None, smooth_y |-> None, velocity_x |-> None,
      velocity_y |-> None, reference_x |-> None, reference_y |-> None,
      is_dragging |-> FALSE, use_relative_mapping |-> TRUE, sensitivity |-> 1 ]

\* cursor.reset_smoothing
reset_smoothing(cur) ==
    [ cur EXCEPT !.smooth_x = None, !.smooth_y = None, !.velocity_x = None,
                 !.velocity_y = None, !.reference_x = None, !.reference_y = None ]

\* cursor.stop_drag (the mouseUp it issues goes to the mouse, not modelled here)
stop_drag(cur) == [ cur EXCEPT !.is_dragging = FALSE ]

\* ---- the cursor module together with the mouse it drives
\* The longest run of move_cursor calls followed.
MaxMoves == 2
RECURSIVE Pow5(_)
Pow5(k) == IF k = 0 THEN 1 ELSE 5 * Pow5(k - 1)
\* Normalized coordinates, deltas and velocities of the cursor module are
\* counted in units of 1/Fine.  Every division by 5 of the smoothing and by
\* 2 of the velocity estimate is exact over MaxMoves calls in relative mode
\* for inputs that are multiples of 0.01; a division written with IntTrunc
\* cuts the rest off where a longer run or the absolute mode leaves one.
Fine == ScreenWidth * Pow5(MaxMoves)
\* Fine units per pixel, horizontally and vertically.
PixelX == Fine \div ScreenWidth
PixelY == Fine \div ScreenHeight

\* _smoothing_alpha = 0.6 and _smoothing_beta = 0.4, in tenths
SmoothingAlpha == 6
SmoothingBeta == 4
\* _max_velocity = 0.05, in hundredths
MaxVelocity == 5
\* the default alpha of move_cursor, 0.35, in thousandths
DefaultAlpha == 350

\* A call made on pyautogui.
MouseCall(op, x, y) == [ op |-> op, x |-> x, y |-> y ]
\* The mouse: where it is, whether its button is held, and the calls the
\* operation in progress has made on it.
NewMouse(x, y) == [ x |-> x, y |-> y, down |-> FALSE, calls |-> << >> ]
\* The state a cursor operation acts on.
NewPointer(x, y) == [ cursor |-> NewCursor, mouse |-> NewMouse(x, y) ]

\* cursor.set_reference_point
cursor_set_reference_point(pw, x, y) ==
    [ pw EXCEPT !.cursor.reference_x = Some(x), !.cursor.reference_y = Some(y) ]

\* cursor.set_relative_mapping
cursor_set_relative_mapping(pw, enabled, sensitivity) ==
    [ pw EXCEPT !.cursor.use_relative_mapping = enabled,
                !.cursor.sensitivity = sensitivity ]

\* cursor.reset_smoothing
cursor_reset_smoothing(pw) == [ pw EXCEPT !.cursor = reset_smoothing(pw.cursor) ]

\* An axis whose velocity is not clamped.
RelativeAxis_Unclamped(value, reference, smooth, velocity, sensitivity) ==
    LET raw == (value - reference) * sensitivity
        velocity0 == IF velocity = None THEN 0 ELSE Val(velocity)
        smooth1 == IF smooth = None THEN raw
                   ELSE IntTrunc(SmoothingAlpha * raw
                                   + (10 - SmoothingAlpha) * Val(smooth), 10)
        velocity_update == IntTrunc(SmoothingAlpha * raw, 10 - SmoothingAlpha)
        velocity1 == IntTrunc(SmoothingBeta * velocity_update
                                + (10 - SmoothingBeta) * velocity0, 10)
    IN [ smooth |-> smooth1 + velocity1, velocity |-> velocity1,
         position_smooth |-> smooth1, velocity_update |-> velocity_update ]

\* One axis of the relative branch: raw delta, position EMA, velocity
\* estimate, velocity EMA, clamp, momentum.
RelativeAxis(value, reference, smooth, velocity, sensitivity) ==
    LET raw == (value - reference) * sensitivity
        velocity0 == IF velocity = None THEN 0 ELSE Val(velocity)
        smooth1 == IF smooth = None THEN raw
                   ELSE IntTrunc(SmoothingAlpha * raw
                                   + (10 - SmoothingAlpha) * Val(smooth), 10)
        prev_smooth == smooth1 - IntTrunc(SmoothingAlpha * raw, 10 - SmoothingAlpha)
        velocity_update == smooth1 - prev_smooth
        velocity1 == IntTrunc(SmoothingBeta * velocity_update
                                + (10 - SmoothingBeta) * velocity0, 10)
        bound == (MaxVelocity * Fine) \div 100
        clamped == Max(0 - bound, Min(bound, velocity1))
    IN [ smooth |-> smooth1 + clamped, velocity |-> clamped,
         position_smooth |-> smooth1, velocity_update |-> velocity_update ]

\* movement_magnitude < 3 for deltas of ax/PixelX and ay/PixelY pixels
MagnitudeBelow3(ax, ay) ==
    /\ ax < 3 * PixelX
    /\ ay < 3 * PixelY
    /\ (ax * (PixelY \div PixelX)) * (ax * (PixelY \div PixelX)) + ay * ay
         < 9 * PixelY * PixelY

\* |d| pixels > dead_zone_threshold, which is 1.5 or 0.5
BeyondDeadZone(a, pixel, small) ==
    IF small THEN 2 * a > 3 * pixel ELSE 2 * a > pixel

\* The relative branch of cursor.move_cursor once the reference is set
MoveRelativeStep(pw, x, y) ==
    LET c == pw.cursor
        ax == RelativeAxis(x, Val(c.reference_x), c.smooth_x,
                           c.velocity_x, c.sensitivity)
        ay == RelativeAxis(y, Val(c.reference_y), c.smooth_y,
                           c.velocity_y, c.sensitivity)
        small == MagnitudeBelow3(Abs(ax.smooth), Abs(ay.smooth))
        beyond == \/ BeyondDeadZone(Abs(ax.smooth), PixelX, small)
                  \/ BeyondDeadZone(Abs(ay.smooth), PixelY, small)
        new_x == Max(0, Min(ScreenWidth - 1,
                            pw.mouse.x + IntTrunc(ax.smooth, PixelX)))
        new_y == Max(0, Min(ScreenHeight - 1,
                            pw.mouse.y + IntTrunc(ay.smooth, PixelY)))
        c1 == [ c EXCEPT !.smooth_x = Some(ax.smooth),
                         !.smooth_y = Some(ay.smooth),
                         !.velocity_x = Some(ax.velocity),
                         !.velocity_y = Some(ay.velocity),
                         !.reference_x = Some(x),
                         !.reference_y = Some(y) ]
    IN [ cursor |-> c1,
         mouse |-> IF beyond
                   THEN [ pw.mouse EXCEPT
                            !.x = new_x, !.y = new_y,
                            !.calls = Append(@, MouseCall("moveTo", new_x, new_y)) ]
                   ELSE pw.mouse ]

MoveRelative_FromOrigin(pw, x, y) ==
    IF pw.cursor.reference_x = None \/ pw.cursor.reference_y = None
    THEN MoveRelativeStep([ pw EXCEPT !.cursor.reference_x = Some(0),
                                      !.cursor.reference_y = Some(0) ], x, y)
    ELSE MoveRelativeStep(pw, x, y)

\* The relative branch of cursor.move_cursor: the first call after a reset
\* only takes the reference
MoveRelative(pw, x, y) ==
    IF pw.cursor.reference_x = None \/ pw.cursor.reference_y = None
    THEN [ pw EXCEPT !.cursor.reference_x = Some(x),
                     !.cursor.reference_y = Some(y),
                     !.cursor.smooth_x = Some(0), !.cursor.smooth_y = Some(0),
                     !.cursor.velocity_x = Some(0),
                     !.cursor.velocity_y = Some(0) ]
    ELSE MoveRelativeStep(pw, x, y)

\* One axis of the absolute branch: the adaptive EMA, alpha in thousandths
AbsoluteAxis(value, smooth, alpha) ==
    IF smooth = None THEN value
    ELSE LET d == Abs(value - Val(smooth))
             adaptive_alpha == Min(alpha + IntTrunc(300 * d, Fine), 500)
         IN IntTrunc(adaptive_alpha * value
                       + (1000 - adaptive_alpha) * Val(smooth), 1000)

\* The absolute branch of cursor.move_cursor
MoveAbsolute(pw, x, y, alpha) ==
    LET smooth_x == AbsoluteAxis(x, pw.cursor.smooth_x, alpha)
        smooth_y == AbsoluteAxis(y, pw.cursor.smooth_y, alpha)
        screen_x == IntTrunc(smooth_x, PixelX)
        screen_y == IntTrunc(smooth_y, PixelY)
        moves == \/ Abs(screen_x - pw.mouse.x) > 2
                 \/ Abs(screen_y - pw.mouse.y) > 2
    IN [ cursor |-> [ pw.cursor EXCEPT !.smooth_x = Some(smooth_x),
                                       !.smooth_y = Some(smooth_y) ],
         mouse |-> IF moves
                   THEN [ pw.mouse EXCEPT
                            !.x = screen_x, !.y = screen_y,
                            !.calls = Append(@, MouseCall("moveTo", screen_x, screen_y)) ]
                   ELSE pw.mouse ]

\* cursor.move_cursor
cursor_move_cursor(pw, x, y, alpha) ==
    IF pw.cursor.use_relative_mapping THEN MoveRelative(pw, x, y)
    ELSE MoveAbsolute(pw, x, y, alpha)

\* start_drag without the test of _is_dragging.
cursor_start_drag_Unguarded(pw) ==
    [ pw EXCEPT !.cursor.is_dragging = TRUE, !.mouse.down = TRUE,
                !.mouse.calls = Append(@, MouseCall("mouseDown", 0, 0)) ]

\* cursor.start_drag
cursor_start_drag(pw) ==
    IF ~pw.cursor.is_dragging
    THEN [ pw EXCEPT !.cursor.is_dragging = TRUE, !.mouse.down = TRUE,
                     !.mouse.calls = Append(@, MouseCall("mouseDown", 0, 0)) ]
    ELSE pw

\* cursor.stop_drag, with the mouseUp it issues
cursor_stop_drag(pw) ==
    IF pw.cursor.is_dragging
    THEN [ pw EXCEPT !.cursor = stop_drag(pw.cursor), !.mouse.down = FALSE,
                     !.mouse.calls = Append(@, MouseCall("mouseUp", 0, 0)) ]
    ELSE pw

\* cursor.left_click
cursor_left_click(pw) ==
    [ pw EXCEPT !.mouse.calls = Append(@, MouseCall("click", 0, 0)) ]

(***************************************************************************)
(* version3.py : the main loop in object mode                              *)
(*                                                                         *)
(* A session is the record of everything one run of the loop holds: the    *)
(* loop's module-level variables, the IntentProcessor, the controller with *)
(* the desktop it acts on, and the cursor module's state.                  *)
(***************************************************************************)
SwipeBufferLen == 20
HandBufferLen == 5
\* swipe_cooldown, 0.5 s, in tenths of a second
SwipeCooldown == 5
\* the least swipe_buffer size at which the loop calls detect_swipe
SwipeMinSamples == 8

\* The desktop: two titled, visible windows, in z order.
InitialDesktop ==
    << WindowInfo(1, 40, 200, 440, 400), WindowInfo(2, 160, 100, 560, 500) >>

\* The module-level state of version3.py once the first frame has built the
\* controller.
NewSession(desk) ==
    [ c |-> NewController, desktop |-> desk, issued |-> << >>,
      swipe_buffer |-> << >>, hand_position_buffer |-> << >>,
      is_dragging |-> FALSE, last_swipe_time |-> 0,
      prev_fist |-> FALSE, prev_open_palm |-> FALSE,
      prev_index_pointing |-> FALSE, reference_set |-> FALSE,
      last_intent |-> None, intent |-> None, gesture_data |-> EmptyDict,
      cursor |-> NewCursor ]

\* sum(p[k] for p in positions) / len(positions); the model's raw positions
\* make the quotient exact
Average(positions, k) ==
    LET Sum[i \in 0..Len(positions)] ==
            IF i = 0 THEN 0 ELSE Sum[i-1] + positions[i][k]
    IN Sum[Len(positions)] \div Len(positions)

\* norm_z = 0.3 + (1.0 - hand_size * 2) * 0.2
DepthEstimate(hand_size) == (3 * One) \div 10 + (One - 2 * hand_size) \div 5

\* IntentProcessor.update_last_intent
update_last_intent(s, i) == [ s EXCEPT !.last_intent = Some(i) ]

\* actions.execute_swipe_command: the command the swipe maps to, if any
SwipeCommand(direction) ==
    CASE direction = "swipe_left" -> Some("switch_desktop_left")
      [] direction = "swipe_right" -> Some("switch_desktop_right")
      [] direction = "swipe_up" -> Some("scroll_up")
      [] direction = "swipe_down" -> Some("scroll_down")
      [] OTHER -> None

\* "Handle swipe commands" of the object-mode branch
handle_swipe_commands(s, swipe_direction, t) ==
    IF StrTruthy(swipe_direction) /\ t - s.last_swipe_time > SwipeCooldown
    THEN [ s EXCEPT
             !.issued = IF SwipeCommand(Val(swipe_direction)) # None
                        THEN Append(s.issued,
                                    [ cmd |-> Val(SwipeCommand(Val(swipe_direction))),
                                      hwnd |-> 0, x |-> 0, y |-> 0 ])
                        ELSE s.issued,
             !.last_swipe_time = t,
             !.swipe_buffer = << >> ]
    ELSE s

\* The controller's part of a session, as the world process_intent acts on.
WorldOf(s) == [ c |-> s.c, desktop |-> s.desktop, issued |-> s.issued ]
WithWorld(s, w) == [ s EXCEPT !.c = w.c, !.desktop = w.desktop, !.issued = w.issued ]

\* The object-mode steps of a hand frame: gesture_data, process_gesture,
\* update_last_intent, process_intent.
object_mode_intent(s, gd, t, ok) ==
    LET i == process_gesture(gd, s.last_intent)
        s1 == update_last_intent([ s EXCEPT !.gesture_data = gd, !.intent = Some(i) ], i)
    IN WithWorld(s1, process_intent(WorldOf(s1), i, t, ok))

\* One pass of the loop with a hand in the frame (object mode).  f is what
\* the frame shows: ext (the finger comparisons), x and y (index MCP),
\* hand_size (wrist to index MCP) and wrist_x.
hand_frame(s0, f, t, ok) ==
    LET s == [ s0 EXCEPT
                 !.issued = << >>,
                 !.hand_position_buffer =
                     BufferAppend(s0.hand_position_buffer, HandBufferLen,
                                  << f.x, f.y, DepthEstimate(f.hand_size) >>),
                 !.swipe_buffer =
                     BufferAppend(s0.swipe_buffer, SwipeBufferLen, f.wrist_x) ]
        positions == s.hand_position_buffer
        current_fist == is_fist(f.ext)
        current_open_palm == is_open_palm(f.ext)
        current_index_pointing == is_index_pointing(f.ext)
        swipe_direction ==
            IF ~current_fist /\ Len(s.swipe_buffer) >= SwipeMinSamples
            THEN detect_swipe(s.swipe_buffer) ELSE None
        gd == [ fist |-> current_fist, open_palm |-> current_open_palm,
                index_pointing |-> current_index_pointing,
                swipe_direction |-> swipe_direction,
                position |-> << Average(positions, 1), Average(positions, 2),
                                Average(positions, 3) >>,
                velocity |-> ZeroVelocity ]
        s2 == handle_swipe_commands(object_mode_intent(s, gd, t, ok),
                                    swipe_direction, t)
        \* the overlay's get_windows(): the list is re-enumerated if due
        s3 == [ s2 EXCEPT !.c = WithWindows(s2.c,
                                   get_all_windows(WmOf(s2.c), s2.desktop, t)) ]
    IN [ s3 EXCEPT !.prev_fist = current_fist,
                   !.prev_open_palm = current_open_palm,
                   !.prev_index_pointing = current_index_pointing ]

\* What the no-hand branch does to the controller.
ResetController(c) ==
    [ c EXCEPT !.grabbed_window = None, !.grab_offset = None, !.active_menu = None ]

\* One pass of the loop with no hand in the frame.
no_hand_frame(s) ==
    [ s EXCEPT
        !.issued = << >>,
        !.cursor = reset_smoothing(IF s.is_dragging THEN stop_drag(s.cursor)
                                   ELSE s.cursor),
        !.is_dragging = FALSE,
        !.swipe_buffer = << >>,
        !.hand_position_buffer = << >>,
        !.prev_fist = FALSE,
        !.prev_open_palm = FALSE,
        !.prev_index_pointing = FALSE,
        !.reference_set = FALSE,
        !.c = ResetController(s.c) ]

(***************************************************************************)
(* version2.py : the main loop with pointing gestures                      *)
(*                                                                         *)
(* The loop's variables are one record; the cursor module and the mouse    *)
(* are the pointer it is run with.                                         *)
(***************************************************************************)
V2SwipeBufferLen == 20
\* swipe_cooldown 0.5 s and click_cooldown 0.3 s, in tenths of a second
V2SwipeCooldown == 5
ClickCooldown == 3

\* The loop's variables before the first frame.  The gestures module has no
\* _prev_pointing_* attribute until the loop stores one (None).
NewLoopV2 ==
    [ swipe_buffer |-> SlidingBuffer(V2SwipeBufferLen),
      is_dragging |-> FALSE,
      last_swipe_time |-> 0,
      last_click_time |-> 0,
      prev_fist |-> FALSE,
      prev_open_palm |-> FALSE,
      prev_index_pointing |-> FALSE,
      prev_pointing_down |-> FALSE,
      reference_set |-> FALSE,
      gestures_prev_pointing_left |-> None,
      gestures_prev_pointing_right |-> None,
      gestures_prev_pointing_down |-> None,
      issued |-> << >> ]

\* hasattr(gestures, name) and gestures.name
AttrTrue(attr) == attr # None /\ Val(attr)

\* "Detect gestures" of the hand branch, for a hand of 21 landmarks
DetectV2(landmarks) ==
    LET current_pointing_down == Val(gestures_is_pointing_down(Some(landmarks)).returns)
        current_fist == IF ~current_pointing_down
                        THEN Val(gestures_is_fist(Some(landmarks)).returns)
                        ELSE FALSE
        current_open_palm == Val(gestures_is_open_palm(Some(landmarks)).returns)
        current_index_pointing == Val(gestures_is_index_pointing(Some(landmarks)).returns)
        pointing_direction ==
            IF ~current_fist /\ current_index_pointing /\ ~current_pointing_down
            THEN IF Val(gestures_is_pointing_left(Some(landmarks)).returns)
                 THEN Some("point_left")
                 ELSE IF Val(gestures_is_pointing_right(Some(landmarks)).returns)
                 THEN Some("point_right")
                 ELSE None
            ELSE None
    IN [ current_pointing_down |-> current_pointing_down,
         current_fist |-> current_fist,
         current_open_palm |-> current_open_palm,
         current_index_pointing |-> current_index_pointing,
         pointing_left |-> pointing_direction = Some("point_left"),
         pointing_right |-> pointing_direction = Some("point_right") ]

\* "Handle pointing left/right for desktop switching" with the edge and the
\* cooldown it tests
SwitchRule_AnyFrame(pointing, prev_pointing, t, last_swipe_time) ==
    pointing /\ t - last_swipe_time > V2SwipeCooldown
SwitchRule_NoCooldown(pointing, prev_pointing, t, last_swipe_time) ==
    pointing /\ ~prev_pointing
SwitchRule(pointing, prev_pointing, t, last_swipe_time) ==
    pointing /\ ~prev_pointing /\ t - last_swipe_time > V2SwipeCooldown

SwitchDesktops(s, g, t) ==
    LET prev_pointing_left == AttrTrue(s.gestures_prev_pointing_left)
        prev_pointing_right == AttrTrue(s.gestures_prev_pointing_right)
        s1 == IF SwitchRule(g.pointing_left, prev_pointing_left, t, s.last_swipe_time)
              THEN [ s EXCEPT !.issued = Append(@, "switch_desktop_left"),
                              !.last_swipe_time = t ]
              ELSE s
        s2 == IF SwitchRule(g.pointing_right, prev_pointing_right, t, s1.last_swipe_time)
              THEN [ s1 EXCEPT !.issued = Append(@, "switch_desktop_right"),
                               !.last_swipe_time = t ]
              ELSE s1
    IN [ s2 EXCEPT !.gestures_prev_pointing_left = Some(g.pointing_left),
                   !.gestures_prev_pointing_right = Some(g.pointing_right) ]

\* "Handle pointing down for clicking"; w is the loop with its pointer
ClickOnPointDown(w, g, t) ==
    LET prev_pointing_down == AttrTrue(w.loop.gestures_prev_pointing_down)
        clicks == /\ g.current_pointing_down /\ ~prev_pointing_down
                  /\ t - w.loop.last_click_time > ClickCooldown
    IN [ loop |-> [ w.loop EXCEPT
                      !.prev_pointing_down = prev_pointing_down,
                      !.last_click_time = IF clicks THEN t ELSE @,
                      !.gestures_prev_pointing_down = Some(g.current_pointing_down) ],
         pointer |-> IF clicks THEN cursor_left_click(w.pointer) ELSE w.pointer ]

\* "Handle drag gesture (closed fist)"
DragOnFist(w, g) ==
    LET w1 == IF g.current_fist /\ ~w.loop.prev_fist
              THEN [ loop |-> [ w.loop EXCEPT !.is_dragging = TRUE ],
                     pointer |-> cursor_start_drag(w.pointer) ]
              ELSE w
        w2 == IF g.current_open_palm /\ w1.loop.prev_fist /\ w1.loop.is_dragging
              THEN [ loop |-> [ w1.loop EXCEPT !.is_dragging = FALSE ],
                     pointer |-> cursor_stop_drag(w1.pointer) ]
              ELSE w1
    IN IF g.current_fist
       THEN [ loop |-> [ w2.loop EXCEPT !.is_dragging = TRUE ],
              pointer |-> IF ~w2.pointer.cursor.is_dragging
                          THEN cursor_start_drag(w2.pointer)
                          ELSE w2.pointer ]
       ELSE w2

\* A landmark coordinate in the cursor module's unit.
ToFine(v) == v * (Fine \div One)

\* "Update cursor position": the index MCP drives the cursor
MoveWithHand(w, landmarks) ==
    LET index_mcp == get_index_mcp(Some(landmarks))
    IN IF index_mcp # None
       THEN LET norm_x == ToFine(Val(index_mcp).x)
                norm_y == ToFine(Val(index_mcp).y)
                p1 == IF ~w.loop.reference_set
                      THEN cursor_set_reference_point(w.pointer, norm_x, norm_y)
                      ELSE w.pointer
            IN [ loop |-> [ w.loop EXCEPT !.reference_set = TRUE ],
                 pointer |-> cursor_move_cursor(p1, norm_x, norm_y, DefaultAlpha) ]
       ELSE w

\* One pass of the loop with a hand in the frame.
hand_frame_v2(w0, landmarks, t) ==
    LET g == DetectV2(landmarks)
        w == [ loop |-> [ w0.loop EXCEPT !.issued = << >> ],
               pointer |-> [ w0.pointer EXCEPT !.mouse.calls = << >> ] ]
        w1 == [ w EXCEPT !.loop = SwitchDesktops(w.loop, g, t) ]
        w2 == ClickOnPointDown(w1, g, t)
        w3 == DragOnFist(w2, g)
        w4 == MoveWithHand(w3, landmarks)
    IN [ w4 EXCEPT !.loop.prev_fist = g.current_fist,
                   !.loop.prev_open_palm = g.current_open_palm,
                   !.loop.prev_index_pointing = g.current_index_pointing ]

ClearAttr_Keeps(attr) == attr
\* if hasattr(gestures, name): gestures.name = False
ClearAttr(attr) == IF attr # None THEN Some(FALSE) ELSE attr

no_hand_frame_v2_KeepsSmoothing(w0) ==
    [ w0 EXCEPT !.loop.issued = << >>, !.pointer.mouse.calls = << >> ]

\* One pass of the loop with no hand in the frame.
no_hand_frame_v2(w0) ==
    LET w == [ loop |-> [ w0.loop EXCEPT !.issued = << >> ],
               pointer |-> [ w0.pointer EXCEPT !.mouse.calls = << >> ] ]
        p1 == IF w.loop.is_dragging THEN cursor_stop_drag(w.pointer) ELSE w.pointer
    IN [ loop |-> [ w.loop EXCEPT
                      !.is_dragging = FALSE,
                      !.swipe_buffer = buffer_clear(@),
                      !.prev_fist = FALSE,
                      !.prev_open_palm = FALSE,
                      !.prev_index_pointing = FALSE,
                      !.prev_pointing_down = FALSE,
                      !.reference_set = FALSE,
                      !.gestures_prev_pointing_left = ClearAttr(@),
                      !.gestures_prev_pointing_right = ClearAttr(@),
                      !.gestures_prev_pointing_down = ClearAttr(@) ],
         pointer |-> cursor_reset_smoothing(p1) ]

\* "Handle swipe gestures" of version3's cursor mode
cursor_mode_swipe(s, swipe_direction, t) ==
    IF StrTruthy(swipe_direction) /\ t - s.last_swipe_time > SwipeCooldown
    THEN [ s EXCEPT
             !.issued = IF Val(swipe_direction) = "swipe_left"
                        THEN Append(s.issued, [ cmd |-> "switch_desktop_left",
                                                hwnd |-> 0, x |-> 0, y |-> 0 ])
                        ELSE IF Val(swipe_direction) = "swipe_right"
                        THEN Append(s.issued, [ cmd |-> "switch_desktop_right",
                                                hwnd |-> 0, x |-> 0, y |-> 0 ])
                        ELSE s.issued,
             !.last_swipe_time = t,
             !.swipe_buffer = << >> ]
    ELSE s

\* What is kept of a run of version2's loop to state what it did:
\*   frames    how many frames the loop has processed
\*   cur       what the last frame showed: the gestures and the index MCP of
\*             the hand, None when it showed no hand
\*   prev      the same for the frame before it
\*   lost_at   the index MCP of the last hand frame before the latest loss
\*   was_down  whether the mouse button was held when the last frame came
\*   clicks, switches   when the last two clicks and the last two desktop
\*             switches were executed
NewTrace ==
    [ frames |-> 0, cur |-> None, prev |-> None, lost_at |-> None,
      was_down |-> FALSE, clicks |-> << >>, switches |-> << >> ]

\* The last two of the times, with t added if the action was executed.
Executed(times, done, t) ==
    IF ~done THEN times
    ELSE IF Len(times) < 2 THEN Append(times, t)
    ELSE << times[Len(times)], t >>

Shown(landmarks) ==
    Some([ g |-> DetectV2(landmarks),
           x |-> ToFine(At(landmarks, 5).x), y |-> ToFine(At(landmarks, 5).y) ])

HasCall(calls, op) == \E k \in 1..Len(calls) : calls[k].op = op
HasCommand(issued, commands) == \E k \in 1..Len(issued) : issued[k] \in commands
DesktopSwitches == { "switch_desktop_left", "switch_desktop_right" }

\* The trace after a frame; shown is Shown(landmarks) or None, w the loop
\* and pointer after the frame, down whether the button was held before it.
Traced(tr, shown, w, down, t) ==
    [ frames |-> tr.frames + 1,
      cur |-> shown,
      prev |-> tr.cur,
      lost_at |-> IF shown = None /\ tr.cur # None
                  THEN Some(<< Val(tr.cur).x, Val(tr.cur).y >>)
                  ELSE tr.lost_at,
      was_down |-> down,
      clicks |-> Executed(tr.clicks, HasCall(w.pointer.mouse.calls, "click"), t),
      switches |-> Executed(tr.switches, HasCommand(w.loop.issued, DesktopSwitches), t) ]

omVars == << vobj, objects, selected_object, grabbed_object >>
sessionVars == << session, fresh, now >>
ptrVars == << pointer, called, ncalls >>
v2Vars == << v2loop, trace >>
menuVars == << menus, active_menu, opened >>
gcVars == << given, gesture >>
unitVars == << sbuf, appended, detected, lm, verdicts, ptrVars, v2Vars, menuVars, gcVars >>
vars == << session, fresh, now, vobj, objects, selected_object, grabbed_object,
           sbuf, appended, detected, lm, verdicts, pointer, called, ncalls,
           v2loop, trace, menus, active_menu, opened, given, gesture >>

\* How many times the clock advances, and by how much (0.6 s) each time;
\* frames between two advances read the same time.
MaxTicks == 2
TickStep == UpdateInterval + 1
\* The longest run of consecutive hand frames.
MaxRun == 8

\* The clock at the first frame: time.time() is far beyond every interval
\* the program measures from its initial 0 timestamps.
StartTime == UpdateInterval + SwipeCooldown + 1

Init ==
    /\ session = NewSession(InitialDesktop)
    /\ fresh = None
    /\ now = StartTime
    /\ vobj = [ o \in ObjIds |-> NewVirtualObject(o) ]
    /\ objects = << >>
    /\ selected_object = None
    /\ grabbed_object = None
    /\ sbuf = SlidingBuffer(SwipeBufferLen)
    /\ appended = << >>
    /\ detected = None
    /\ lm = None
    /\ verdicts = None
    /\ pointer = NewPointer(ScreenWidth \div 2, ScreenHeight \div 2)
    /\ called = None
    /\ ncalls = 0
    /\ v2loop = NewLoopV2
    /\ trace = NewTrace
    /\ InitMenus
    /\ InitGesture

\* ---------------------------------------------------------------- inputs
SwipeInputs ==
    { None, Some(""), Some("swipe_left"), Some("swipe_right"), Some("swipe_up"),
      Some("swipe_down"), Some("swipe_diagonal") }
VelocityInputs == { ZeroVelocity, << 20, 0, 0 >>, << 5, -20, 0 >> }
PositionInputs == { << One \div 5, One \div 2, (3 * One) \div 10 >>,
                    << (3 * One) \div 10, One \div 2, (3 * One) \div 10 >> }

\* gesture_data dicts: every combination of the six keys' values, and dicts
\* with keys missing.
GestureInputs ==
    [ fist : BOOLEAN, open_palm : BOOLEAN, index_pointing : BOOLEAN,
      swipe_direction : SwipeInputs,
      position : { << One \div 5, One \div 2, (3 * One) \div 10 >> },
      velocity : VelocityInputs ]
    \cup { EmptyDict, Dict1("open_palm", TRUE), Dict1("fist", TRUE),
           Dict1("swipe_direction", Some("swipe_up")) }

\* Intents a caller can hand to update_last_intent or process_intent.
IntentInputs ==
    { GestureIntent(t, 100, p, EmptyDict) :
        t \in IntentType, p \in { None } \cup { Some(q) : q \in PositionInputs } }
LastIntentInputs == { i \in IntentInputs : i.position = None }

\* What a frame with a hand shows.
FrameXs == { One \div 5, (3 * One) \div 10 }
\* The finger comparisons of a fist, a pointing index, a lone middle finger,
\* three fingers and four fingers up.
FrameExts ==
    { << FALSE, FALSE, FALSE, FALSE >>, << TRUE, FALSE, FALSE, FALSE >>,
      << FALSE, TRUE, FALSE, FALSE >>, << FALSE, TRUE, TRUE, TRUE >>,
      << TRUE, TRUE, TRUE, TRUE >> }
FrameInputs ==
    [ ext : FrameExts, x : FrameXs, y : { One \div 2 },
      hand_size : { One \div 4 }, wrist_x : { One \div 2 } ]
\* The frames of the comparison with a fresh session: one hand position.
TwinFrameInputs == { f \in FrameInputs : f.x = One \div 5 }

\* --------------------------------------------------------- IntentProcessor
\* A caller's process_gesture(gd), keeping what it passed and what it got
process_gesture_call(gd) ==
    /\ session' = [ session EXCEPT
                      !.gesture_data = gd,
                      !.intent = Some(process_gesture(gd, session.last_intent)) ]
    /\ UNCHANGED << fresh, now, omVars, unitVars >>

ProcessGesture == \E gd \in GestureInputs : process_gesture_call(gd)

UpdateLastIntent ==
    \E i \in LastIntentInputs :
        /\ session' = update_last_intent(session, i)
        /\ UNCHANGED << fresh, now, omVars, unitVars >>

NextIntent ==
    \/ ProcessGesture
    \/ UpdateLastIntent

SpecIntent == Init /\ [][NextIntent]_vars

\* ----------------------------------------------------------- ObjectManager
AddObject == \E o \in ObjIds : add_object(o) /\ UNCHANGED << sessionVars, unitVars >>
RemoveObject == \E o \in ObjIds : remove_object(o) /\ UNCHANGED << sessionVars, unitVars >>
GrabObject ==
    \E o \in ObjIds, hx \in HandXs, hy \in HandYs, hz \in HandZs :
        grab_object(o, hx, hy, hz) /\ UNCHANGED << sessionVars, unitVars >>
ReleaseObject == release_object /\ UNCHANGED << sessionVars, unitVars >>
UpdateHover ==
    \E hx \in HandXs, hy \in HoverYs : update_hover(hx, hy) /\ UNCHANGED << sessionVars, unitVars >>
UpdateGrabbedObject ==
    \E hx \in HandXs, hy \in HandYs, hz \in HandZs :
        update_grabbed_object(hx, hy, hz) /\ UNCHANGED << sessionVars, unitVars >>

\* The ObjectManager driven through its whole API.
NextObjects ==
    \/ AddObject
    \/ RemoveObject
    \/ GrabObject
    \/ ReleaseObject
    \/ UpdateHover
    \/ UpdateGrabbedObject

SpecObjects == Init /\ [][NextObjects]_vars

\* ---- the ObjectManager over scenes of placed objects
\* Where set_position put the objects before the manager got them: x at
\* 0.5, 0.52 (the two overlap) or 0.9; the first object at depth 0.1 or 0.3,
\* the others at the default 0.3.
SceneXs == { One \div 2, (13 * One) \div 25, (9 * One) \div 10 }
SceneZs == { One \div 10, (3 * One) \div 10 }
Placed(o, x, z) == [ NewVirtualObject(o) EXCEPT !.x = x, !.z = z ]
\* The lists add_object can build from distinct objects.
RECURSIVE SceneListsOf(_)
SceneListsOf(n) ==
    IF n = 0 THEN { << >> }
    ELSE LET shorter == SceneListsOf(n - 1)
         IN shorter \cup
            { Append(l, o) : l \in { k \in shorter : Len(k) = n - 1 },
                             o \in ObjIds }
SceneLists ==
    { l \in SceneListsOf(NumObjects) :
        \A i, j \in 1..Len(l) : i # j => l[i] # l[j] }

InitScene ==
    /\ session = NewSession(InitialDesktop)
    /\ fresh = None
    /\ now = StartTime
    /\ vobj \in { [ o \in ObjIds |->
                       Placed(o, xs[o], IF o = 1 THEN z ELSE (3 * One) \div 10) ] :
                     xs \in [ ObjIds -> SceneXs ], z \in SceneZs }
    /\ objects \in SceneLists
    /\ selected_object = None
    /\ grabbed_object = None
    /\ sbuf = SlidingBuffer(SwipeBufferLen)
    /\ appended = << >>
    /\ detected = None
    /\ lm = None
    /\ verdicts = None
    /\ pointer = NewPointer(ScreenWidth \div 2, ScreenHeight \div 2)
    /\ called = None
    /\ ncalls = 0
    /\ v2loop = NewLoopV2
    /\ trace = NewTrace
    /\ InitMenus
    /\ InitGesture

NextScene ==
    \/ UpdateHover
    \/ GrabObject
    \/ UpdateGrabbedObject

SpecScene == InitScene /\ [][NextScene]_vars

\* ---- the MenuManager driven through its whole API
MenuPositions == { << One \div 2, One \div 2 >>, << One \div 5, One \div 2 >>,
                   << 0, One >> }
\* 0, 1 rad, pi, 3 pi / 2, 7 rad (more than a turn) and -pi / 2
MenuAngles == { 0, 200000, Pi, 3 * HalfPi, 1400000, 0 - HalfPi }
Manager == [ menus |-> menus, active_menu |-> active_menu ]
ManagerBecomes(mm) == menus' = mm.menus /\ active_menu' = mm.active_menu
MenuOnly == UNCHANGED << sessionVars, omVars, sbuf, appended, detected, lm, verdicts,
                         ptrVars, v2Vars, gcVars >>

OpenMenu ==
    \E m \in MenuIds, p \in MenuPositions :
        /\ ManagerBecomes(open_menu(Manager, m, p[1], p[2]))
        /\ opened' = opened \cup { m }
        /\ MenuOnly
CloseMenu ==
    /\ ManagerBecomes(close_menu(Manager))
    /\ UNCHANGED opened
    /\ MenuOnly
SelectMenuOption ==
    \E angle \in MenuAngles :
        LET r == select_menu_option(Manager, angle)
        IN /\ ManagerBecomes(IF r.raises = None THEN Val(r.returns) ELSE Manager)
           /\ UNCHANGED opened
           /\ MenuOnly
ExecuteMenuAction ==
    \E action_ok \in BOOLEAN :
        /\ ManagerBecomes(execute_menu_action(Manager, action_ok))
        /\ UNCHANGED opened
        /\ MenuOnly

NextMenus ==
    \/ OpenMenu
    \/ CloseMenu
    \/ SelectMenuOption
    \/ ExecuteMenuAction

SpecMenus == Init /\ [][NextMenus]_vars

\* ---- classify_gesture called on hands
Pt(x, y) == [ x |-> x, y |-> y ]
\* The wrist and the MCP joints of an upright hand (taller than wide) and of
\* a hand lying on its side (wider than tall), by landmark number.
JointsOf(orientation) ==
    IF orientation = "upright"
    THEN [ wrist |-> Pt(300, 480), thumb_mcp |-> Pt(240, 400),
           mcp |-> << Pt(260, 300), Pt(300, 290), Pt(320, 300), Pt(340, 310) >>,
           to_pip |-> Pt(0, -80) ]
    ELSE [ wrist |-> Pt(120, 300), thumb_mcp |-> Pt(200, 240),
           mcp |-> << Pt(300, 260), Pt(310, 300), Pt(300, 320), Pt(290, 340) >>,
           to_pip |-> Pt(60, 0) ]
\* The thumb's IP joint and tip relative to its MCP joint: tucked in, raised
\* high, raised by 0.058 only, and stuck out to the side.
ThumbOf(thumb) ==
    CASE thumb = "tucked" -> [ ip |-> Pt(5, -10), tip |-> Pt(10, -20) ]
      [] thumb = "up" -> [ ip |-> Pt(0, -100), tip |-> Pt(0, -200) ]
      [] thumb = "edge" -> [ ip |-> Pt(0, -20), tip |-> Pt(0, -35) ]
      [] thumb = "side" -> [ ip |-> Pt(-20, -20), tip |-> Pt(-80, -60) ]
Plus(a, b) == Pt(a.x + b.x, a.y + b.y)
\* A hand of 21 landmarks: index is "up", "down" or "at_thumb" (its tip 0.01
\* beside the thumb's); others tells which of the middle, ring and pinky
\* fingers are up.  A raised tip is 0.067 above its PIP joint, a lowered one
\* 0.033 below it.
GestureHand(orientation, thumb, index, others) ==
    LET j == JointsOf(orientation)
        t == ThumbOf(thumb)
        thumb_tip == Plus(j.thumb_mcp, t.tip)
        pip(f) == Plus(j.mcp[f], j.to_pip)
        tip(f) == IF f = 1 /\ index = "at_thumb" THEN Plus(thumb_tip, Pt(6, 0))
                  ELSE IF (f = 1 /\ index = "up") \/ (f > 1 /\ others[f - 1])
                  THEN Plus(pip(f), Pt(0, -40))
                  ELSE Plus(pip(f), Pt(0, 20))
    IN [ i \in 1..21 |->
           LET k == i - 1
           IN CASE k = 0 -> j.wrist
                [] k \in { 1, 2 } -> j.thumb_mcp
                [] k = 3 -> Plus(j.thumb_mcp, t.ip)
                [] k = 4 -> thumb_tip
                [] k \in { 5, 9, 13, 17 } -> j.mcp[(k - 1) \div 4]
                [] k \in { 6, 10, 14, 18, 7, 11, 15, 19 } -> pip((k - 2) \div 4)
                [] OTHER -> tip(k \div 4 - 1) ]
GestureHands ==
    { GestureHand(orientation, thumb, index, others) :
        orientation \in { "upright", "sideways" },
        thumb \in { "tucked", "up", "edge", "side" },
        index \in { "up", "down", "at_thumb" },
        others \in [ 1..3 -> BOOLEAN ] }
Handedness == { None, Some("Left"), Some("Right") }

ClassifyGesture ==
    /\ \E landmarks \in GestureHands, handedness \in Handedness :
         /\ given' = Some([ landmarks |-> landmarks, handedness |-> handedness ])
         /\ gesture' = Some(classify_gesture(landmarks, handedness))
    /\ UNCHANGED << sessionVars, omVars, sbuf, appended, detected, lm, verdicts,
                    ptrVars, v2Vars, menuVars >>

NextGestures == ClassifyGesture
SpecGestures == Init /\ [][NextGestures]_vars

\* -------------------------------------------------------- ObjectController
Tick ==
    /\ now < StartTime + MaxTicks * TickStep
    /\ now' = now + TickStep
    /\ UNCHANGED << session, fresh, omVars, unitVars >>

\* ObjectController.process_intent called with any intent
ProcessIntent ==
    \E i \in IntentInputs, ok \in BOOLEAN :
        /\ session' = WithWorld(session,
                         process_intent([ WorldOf(session) EXCEPT !.issued = << >> ],
                                        i, now, ok))
        /\ UNCHANGED << fresh, now, omVars, unitVars >>

\* ------------------------------------------------- the two grab components
\* The ObjectManager (over a scene that only grows) and the ObjectController
\* share no state: their behaviours are explored one component at a time,
\* each from the other's initial state.
ControllerUntouched ==
    /\ session = NewSession(InitialDesktop)
    /\ now = StartTime
ObjectsUntouched ==
    /\ objects = << >>
    /\ grabbed_object = None
    /\ vobj = [ o \in ObjIds |-> NewVirtualObject(o) ]

NextTargets ==
    \/ ControllerUntouched /\ AddObject
    \/ ControllerUntouched /\ GrabObject
    \/ ControllerUntouched /\ ReleaseObject
    \/ ControllerUntouched /\ UpdateHover
    \/ ControllerUntouched /\ UpdateGrabbedObject
    \/ ObjectsUntouched /\ ProcessIntent
    \/ ObjectsUntouched /\ Tick

SpecTargets == Init /\ [][NextTargets]_vars

\* ------------------------------------------------------ the version3 loop
HandFrameOf(inputs) ==
    \E f \in inputs, ok \in BOOLEAN :
        /\ Len(session.swipe_buffer) < MaxRun
        /\ session' = hand_frame(session, f, now, ok)
        /\ fresh' = IF fresh = None THEN None
                    ELSE Some(hand_frame(Val(fresh), f, now, ok))
        /\ UNCHANGED << now, omVars, unitVars >>

HandFrame == HandFrameOf(FrameInputs)

NoHandFrame ==
    /\ session' = no_hand_frame(session)
    /\ UNCHANGED << fresh, now, omVars, unitVars >>

NextV3 ==
    \/ HandFrame
    \/ NoHandFrame
    \/ Tick

SpecV3 == Init /\ [][NextV3]_vars

\* The loop next to a twin: at every no-hand frame a fresh session is
\* started on the desktop as it then is, and is fed the same frames.
TwinHandFrame == HandFrameOf(TwinFrameInputs)

TwinNoHandFrame ==
    /\ session' = no_hand_frame(session)
    /\ fresh' = Some(NewSession(session.desktop))
    /\ UNCHANGED << now, omVars, unitVars >>

NextTwin ==
    \/ TwinHandFrame
    \/ TwinNoHandFrame
    \/ Tick

SpecTwin == Init /\ [][NextTwin]_vars

\* ---- the cursor module driven through its public operations
\* Hand positions (index MCP), normalized: the centre, a hundredth to its
\* right, and the far corner.
CursorPoints ==
    { << Fine \div 2, Fine \div 2 >>,
      << (51 * Fine) \div 100, Fine \div 2 >>,
      << Fine, Fine >> }
Sensitivities == { 1, 2 }
\* Where the mouse is when the program starts.
MouseStarts ==
    { << ScreenWidth \div 2, ScreenHeight \div 2 >>,
      << ScreenWidth - 1, ScreenHeight - 1 >> }

InitCursor ==
    /\ session = NewSession(InitialDesktop)
    /\ fresh = None
    /\ now = StartTime
    /\ vobj = EmptyDict
    /\ objects = << >>
    /\ selected_object = None
    /\ grabbed_object = None
    /\ sbuf = SlidingBuffer(SwipeBufferLen)
    /\ appended = << >>
    /\ detected = None
    /\ lm = None
    /\ verdicts = None
    /\ pointer \in { NewPointer(m[1], m[2]) : m \in MouseStarts }
    /\ called = None
    /\ ncalls = 0
    /\ v2loop = NewLoopV2
    /\ trace = NewTrace
    /\ InitMenus
    /\ InitGesture

\* The operation starting now has made no call on the mouse yet.
Fresh(pw) == [ pw EXCEPT !.mouse.calls = << >> ]
\* A call and whether the reference was unset when it was made.
CursorCall(op, x, y) ==
    Some([ op |-> op, x |-> x, y |-> y,
           unset |-> pointer.cursor.reference_x = None ])
CursorIdle ==
    UNCHANGED << sessionVars, omVars, sbuf, appended, detected, lm, verdicts, v2Vars, menuVars, gcVars >>

SetReferencePoint ==
    /\ \E p \in CursorPoints :
         /\ pointer' = cursor_set_reference_point(Fresh(pointer), p[1], p[2])
         /\ called' = CursorCall("set_reference_point", p[1], p[2])
    /\ UNCHANGED ncalls
    /\ CursorIdle

SetRelativeMapping ==
    /\ \E enabled \in BOOLEAN, sensitivity \in Sensitivities :
         /\ pointer' = cursor_set_relative_mapping(Fresh(pointer), enabled, sensitivity)
         /\ called' = CursorCall("set_relative_mapping", 0, 0)
    /\ UNCHANGED ncalls
    /\ CursorIdle

MoveCursor ==
    /\ ncalls < MaxMoves
    /\ \E p \in CursorPoints :
         /\ pointer' = cursor_move_cursor(Fresh(pointer), p[1], p[2], DefaultAlpha)
         /\ called' = CursorCall("move_cursor", p[1], p[2])
    /\ ncalls' = ncalls + 1
    /\ CursorIdle

ResetSmoothing ==
    /\ pointer' = cursor_reset_smoothing(Fresh(pointer))
    /\ called' = CursorCall("reset_smoothing", 0, 0)
    /\ UNCHANGED ncalls
    /\ CursorIdle

NextCursor ==
    \/ SetReferencePoint
    \/ SetRelativeMapping
    \/ MoveCursor
    \/ ResetSmoothing
SpecCursor == InitCursor /\ [][NextCursor]_vars

\* ---- the gesture predicates called on what the tracker may hand over
\* A hand of 21 landmarks: the wrist at height wrist_y, every joint at mid
\* height, each finger tip above its PIP when extended and below it when
\* curled, the index tip shifted sideways by tip_dx.
MakeHand(ext, tip_dx, wrist_y) ==
    [ i \in 1..21 |->
        LET k == i - 1
        IN IF k = 0 THEN [ x |-> One \div 2, y |-> wrist_y ]
           ELSE IF k \in { 8, 12, 16, 20 }
           THEN [ x |-> IF k = 8 THEN One \div 2 + tip_dx ELSE One \div 2,
                  y |-> IF ext[(k - 4) \div 4] THEN (2 * One) \div 5
                        ELSE (3 * One) \div 5 ]
           ELSE [ x |-> One \div 2, y |-> One \div 2 ] ]

FullHands ==
    { MakeHand(ext, tip_dx, wrist_y) :
        ext \in [ Fingers -> BOOLEAN ],
        tip_dx \in { 0 - One \div 10, 0, One \div 10 },
        wrist_y \in { One \div 2, (7 * One) \div 10 } }

\* Lists cut short of the 21 landmarks, the empty list among them.
PrefixLengths == { 0, 1, 6, 8, 9, 12, 20, 21 }
LandmarkInputs ==
    { None } \cup
    { Some(SubSeq(h, 1, n)) : h \in FullHands, n \in PrefixLengths }

Classify ==
    /\ \E l \in LandmarkInputs :
         /\ lm' = l
         /\ verdicts' = Some([ is_fist |-> gestures_is_fist(l),
                               is_open_palm |-> gestures_is_open_palm(l),
                               is_index_pointing |-> gestures_is_index_pointing(l),
                               is_pointing_down |-> gestures_is_pointing_down(l),
                               is_pointing_left |-> gestures_is_pointing_left(l),
                               is_pointing_right |-> gestures_is_pointing_right(l) ])
    /\ UNCHANGED << session, fresh, now, omVars, sbuf, appended, detected, ptrVars, v2Vars, menuVars, gcVars >>

NextLandmarks == Classify
SpecLandmarks == Init /\ [][NextLandmarks]_vars

\* ---- version2's loop fed frames while the clock runs
\* The longest run of frames and the longest time followed (tenths of a
\* second); the clock advances by 0.2 s or 0.3 s between frames, and frames
\* between two advances read the same time.
MaxFrames == 4
MaxClock == 6
ClockSteps == { 2, 3 }

ShiftHand(hand, dx) ==
    [ i \in 1..Len(hand) |-> [ x |-> hand[i].x + dx, y |-> hand[i].y ] ]
AllCurled == [ k \in Fingers |-> FALSE ]
AllExtended == [ k \in Fingers |-> TRUE ]
IndexOnly == [ k \in Fingers |-> k = 1 ]
\* A fist, an open palm, an index pointing up, to the left and to the right
\* (wrist low in the frame) and a curled index below the wrist (pointing
\* down), with the hand at the centre; the fist and the pointing index also
\* a hundredth to the right of it.
V2Hands ==
    { MakeHand(AllCurled, 0, (7 * One) \div 10),
      MakeHand(AllExtended, 0, (7 * One) \div 10),
      MakeHand(IndexOnly, 0, (7 * One) \div 10),
      MakeHand(IndexOnly, 0 - One \div 10, (7 * One) \div 10),
      MakeHand(IndexOnly, One \div 10, (7 * One) \div 10),
      MakeHand(AllCurled, 0, One \div 2),
      ShiftHand(MakeHand(AllCurled, 0, (7 * One) \div 10), One \div 100),
      ShiftHand(MakeHand(IndexOnly, 0, (7 * One) \div 10), One \div 100) }

InitV2 == Init

V2Idle ==
    UNCHANGED << session, fresh, omVars, sbuf, appended, detected, lm, verdicts,
                 called, ncalls, menuVars, gcVars >>

HandFrameV2 ==
    /\ trace.frames < MaxFrames
    /\ \E l \in V2Hands :
         LET w == hand_frame_v2([ loop |-> v2loop, pointer |-> pointer ], l, now)
         IN /\ v2loop' = w.loop
            /\ pointer' = w.pointer
            /\ trace' = Traced(trace, Shown(l), w, pointer.mouse.down, now)
    /\ UNCHANGED now
    /\ V2Idle

NoHandFrameV2 ==
    /\ trace.frames < MaxFrames
    /\ LET w == no_hand_frame_v2([ loop |-> v2loop, pointer |-> pointer ])
       IN /\ v2loop' = w.loop
          /\ pointer' = w.pointer
          /\ trace' = Traced(trace, None, w, pointer.mouse.down, now)
    /\ UNCHANGED now
    /\ V2Idle

TickV2 ==
    /\ \E d \in ClockSteps :
         /\ now + d <= StartTime + MaxClock
         /\ now' = now + d
    /\ UNCHANGED << session, fresh, omVars, unitVars >>

NextV2 ==
    \/ HandFrameV2
    \/ NoHandFrameV2
    \/ TickV2
SpecV2 == InitV2 /\ [][NextV2]_vars

\* ---- either program run against the clock
\* version2.py or version3.py is started, never both: a step of one loop is
\* taken only while the other has not run.  The clock of version3's run
\* advances as in SpecV3; that of version2's run as in SpecV2, from its
\* first frame on.
V2NotStarted == trace.frames = 0
V3NotStarted == session = NewSession(InitialDesktop)

\* Hands that show no gesture while the wrist jumps from side to side.
SwipeFrameInputs ==
    [ ext : { << FALSE, TRUE, FALSE, FALSE >> }, x : { One \div 5 },
      y : { One \div 2 }, hand_size : { One \div 4 },
      wrist_x : { One \div 2, (29 * One) \div 50 } ]
LoopsHandFrame == V2NotStarted /\ HandFrameOf(SwipeFrameInputs)
LoopsNoHandFrame == V2NotStarted /\ NoHandFrame
LoopsTick == V2NotStarted /\ Tick
V2MayRun == V3NotStarted /\ (V2NotStarted => now = StartTime)
LoopsHandFrameV2 == V2MayRun /\ HandFrameV2
LoopsNoHandFrameV2 == V2MayRun /\ NoHandFrameV2
LoopsTickV2 == ~V2NotStarted /\ TickV2

NextLoops ==
    \/ LoopsHandFrame
    \/ LoopsNoHandFrame
    \/ LoopsTick
    \/ LoopsHandFrameV2
    \/ LoopsNoHandFrameV2
    \/ LoopsTickV2
SpecLoops == Init /\ [][NextLoops]_vars

\* ------------------------------------------- SlidingBuffer, detect_swipe
\* The largest maxlen a buffer is built with, and the most values appended
\* between two clears.
MaxCapacity == 5
MaxAppended == 5

\* Wrist x samples: 0.5, 0.53, 0.56, 0.57 and 0.9, so that displacements of
\* 0.03, exactly 0.06, 0.07 and 0.4 occur.
Samples == { One \div 2, (53 * One) \div 100, (56 * One) \div 100,
             (57 * One) \div 100, (9 * One) \div 10 }

InitBuffer ==
    /\ session = NewSession(InitialDesktop)
    /\ fresh = None
    /\ now = StartTime
    /\ vobj = [ o \in ObjIds |-> NewVirtualObject(o) ]
    /\ objects = << >>
    /\ selected_object = None
    /\ grabbed_object = None
    /\ sbuf \in { SlidingBuffer(n) : n \in 0..MaxCapacity }
    /\ appended = << >>
    /\ detected = None
    /\ lm = None
    /\ verdicts = None
    /\ pointer = NewPointer(ScreenWidth \div 2, ScreenHeight \div 2)
    /\ called = None
    /\ ncalls = 0
    /\ v2loop = NewLoopV2
    /\ trace = NewTrace
    /\ InitMenus
    /\ InitGesture

BufferAppendValue ==
    \E value \in Samples :
        /\ Len(appended) < MaxAppended
        /\ sbuf' = buffer_append(sbuf, value)
        /\ appended' = Append(appended, value)
        /\ UNCHANGED << sessionVars, omVars, detected, lm, verdicts, ptrVars, v2Vars, menuVars, gcVars >>

BufferClear ==
    /\ sbuf' = buffer_clear(sbuf)
    /\ appended' = << >>
    /\ UNCHANGED << sessionVars, omVars, detected, lm, verdicts, ptrVars, v2Vars, menuVars, gcVars >>

DetectSwipe ==
    /\ detected' = detect_swipe(buffer_get(sbuf))
    /\ UNCHANGED << sessionVars, omVars, sbuf, appended, lm, verdicts, ptrVars, v2Vars, menuVars, gcVars >>

NextBuffer ==
    \/ BufferAppendValue
    \/ BufferClear
    \/ DetectSwipe

SpecBuffer == InitBuffer /\ [][NextBuffer]_vars

(***************************************************************************)
(* The claims                                                              *)
(***************************************************************************)
GrabbedObjects == { o \in ObjIds : vobj[o].state = GRABBED }

\* C1: at most one object is GRABBED; grab_object on B while another object
\* A is grabbed leaves A IDLE with no offset and makes B the grabbed object;
\* and the controller's one grabbed_window and its offset always belong to
\* the same, latest target.
C1_AtMostOneGrabbed ==
    /\ [](Cardinality(GrabbedObjects) <= 1)
    /\ [][ \A o \in ObjIds, hx \in HandXs, hy \in HandYs, hz \in HandZs :
             ( /\ grab_object(o, hx, hy, hz)
               /\ grabbed_object # None
               /\ Val(grabbed_object) # o )
             => ( /\ vobj'[Val(grabbed_object)].state = IDLE
                  /\ vobj'[Val(grabbed_object)].grab_offset = None
                  /\ grabbed_object' = Some(o)
                  /\ vobj'[o].state = GRABBED ) ]_vars
    /\ [][ ( /\ session'.c.grabbed_window # None
             /\ session'.c.grabbed_window # session.c.grabbed_window )
           => session'.c.grab_offset =
                  Some(GrabOffset(session'.c, Val(session'.c.grabbed_window))) ]_vars

\* Object 2 is grabbed while object 1, which was grabbed and dragged
\* before, is back to IDLE.
C1_Witness ==
    /\ InList(objects, 1)
    /\ InList(objects, 2)
    /\ grabbed_object = Some(2)
    /\ vobj[2].state = GRABBED
    /\ vobj[1].state = IDLE
    /\ vobj[1].x # One \div 2

\* C2: every VirtualObject has grab_offset = None exactly when its state is
\* not GRABBED.
C2_OffsetIffGrabbed ==
    \A o \in ObjIds : (vobj[o].grab_offset = None) <=> (vobj[o].state # GRABBED)

\* C3: while a window stays grabbed, from one frame to the next, the
\* recorded grab offset does not change.
C3_OffsetHeldWhileGrabbed ==
    [][ ( /\ session.c.grabbed_window # None
          /\ session'.c.grabbed_window # None
          /\ Val(session'.c.grabbed_window).hwnd = Val(session.c.grabbed_window).hwnd )
        => session'.c.grab_offset = session.c.grab_offset ]_vars

ReleaseIntents == { i \in IntentInputs : i.intent_type = RELEASE_OBJECT }

\* C4: release is idempotent.  From every state, RELEASE_OBJECT processed
\* twice leaves no grabbed window and no offset after the first call and
\* changes nothing in the second; release_object leaves nothing grabbed,
\* and with nothing grabbed it changes nothing.
C4_ReleaseIdempotent ==
    /\ [](\A i \in ReleaseIntents, ok \in BOOLEAN :
            LET w1 == process_intent(WorldOf(session), i, now, ok)
                w2 == process_intent(w1, i, now, ok)
            IN /\ w1.c.grabbed_window = None
               /\ w1.c.grab_offset = None
               /\ w2 = w1)
    /\ [][ release_object
           => ( /\ grabbed_object' = None
                /\ \A o \in ObjIds : /\ vobj'[o].state # GRABBED
                                     /\ vobj'[o].grab_offset = None
                /\ (grabbed_object = None => UNCHANGED omVars) ) ]_vars

\* Some window no longer sits where it started: it has been dragged.
SomeWindowMoved ==
    \E k \in 1..Len(session.desktop), j \in 1..Len(InitialDesktop) :
        /\ session.desktop[k].hwnd = InitialDesktop[j].hwnd
        /\ session.desktop[k].left # InitialDesktop[j].left

\* A window was grabbed and dragged, and the release has cleared the grab.
C4_Witness ==
    /\ SomeWindowMoved
    /\ session.c.grabbed_window = None
    /\ session.c.grab_offset = None

GdFist == Get(session.gesture_data, "fist", FALSE)
GdOpenPalm == Get(session.gesture_data, "open_palm", FALSE)
GdIndexPointing == Get(session.gesture_data, "index_pointing", FALSE)
GdSwipe == Get(session.gesture_data, "swipe_direction", None)
LastIsGrab ==
    session.last_intent # None /\ Val(session.last_intent).intent_type = GRAB_OBJECT

\* C5: a snapshot with fist = true yields GRAB_OBJECT with confidence 0.9,
\* whatever the other keys and the last intent are.
C5_FistGrabs ==
    (session.intent # None /\ GdFist)
        => ( /\ Val(session.intent).intent_type = GRAB_OBJECT
             /\ Val(session.intent).confidence = 90 )

\* Fist and open palm together, right after a grab: the release rule would
\* apply, and the result is the grab.
C5_Witness ==
    /\ session.intent # None
    /\ GdFist /\ GdOpenPalm /\ LastIsGrab
    /\ Val(session.intent).intent_type = GRAB_OBJECT

\* The condition under which the release rule is claimed to fire.
ReleaseDue(gd, last) ==
    /\ ~Get(gd, "fist", FALSE)
    /\ Get(gd, "open_palm", FALSE)
    /\ last # None
    /\ Val(last).intent_type = GRAB_OBJECT

\* C6: whatever the stored last intent, process_gesture returns
\* RELEASE_OBJECT exactly when fist is false, open_palm is true and the
\* last intent is a GRAB_OBJECT.
C6_ReleaseOnlyAfterGrab ==
    \A gd \in GestureInputs :
        (process_gesture(gd, session.last_intent).intent_type = RELEASE_OBJECT)
            <=> ReleaseDue(gd, session.last_intent)

\* An open palm right after a grab has yielded the release.
C6_Witness ==
    /\ session.intent # None
    /\ Val(session.intent).intent_type = RELEASE_OBJECT
    /\ Val(session.intent).confidence = 90
    /\ GdOpenPalm /\ ~GdFist /\ LastIsGrab

\* The type and confidence claimed for a snapshot that is neither a fist
\* nor due a release.
ClaimedRest(gd) ==
    LET swipe == Get(gd, "swipe_direction", None)
    IN IF swipe \in { Some("swipe_left"), Some("swipe_right"),
                      Some("swipe_up"), Some("swipe_down") }
       THEN << Val(swipe), 85 >>
       ELSE IF Get(gd, "index_pointing", FALSE) THEN << CLICK, 80 >>
       ELSE IF Get(gd, "open_palm", FALSE) THEN << HOVER_OBJECT, 70 >>
       ELSE << UNKNOWN, 0 >>

\* C7: with fist false and no release due, the result is the first match
\* of swipe (0.85), click (0.8), hover (0.7), else UNKNOWN (0.0).
C7_RestInOrder ==
    \A gd \in GestureInputs :
        (~Get(gd, "fist", FALSE) /\ ~ReleaseDue(gd, session.last_intent))
            => LET i == process_gesture(gd, session.last_intent)
               IN << i.intent_type, i.confidence >> = ClaimedRest(gd)

\* A pointing index with an open palm, a direction the map does not know
\* and no grab before: the click wins.
C7_Witness ==
    /\ session.intent # None
    /\ ~GdFist /\ GdOpenPalm /\ GdIndexPointing /\ ~LastIsGrab
    /\ GdSwipe = Some("swipe_diagonal")
    /\ Val(session.intent).intent_type = CLICK

\* C8: a hand frame showing a fist while a window is grabbed yields a DRAG
\* intent and a move of the grabbed window to hand position - grab offset.
C8_FistWhileGrabbedDrags ==
    [][ \A f \in FrameInputs, ok \in BOOLEAN :
          ( /\ session.c.grabbed_window # None
            /\ is_fist(f.ext)
            /\ session' = hand_frame(session, f, now, ok) )
          => ( /\ Val(session'.intent).intent_type = DRAG
               /\ \E k \in 1..Len(session'.issued) :
                    /\ session'.issued[k].cmd = "move_window"
                    /\ session'.issued[k].hwnd = Val(session.c.grabbed_window).hwnd
                    /\ session'.issued[k].x
                          = session'.c.hand_x - Val(session.c.grab_offset)[1]
                    /\ session'.issued[k].y
                          = session'.c.hand_y - Val(session.c.grab_offset)[2] ) ]_vars

\* C9: process_gesture never returns DRAG; its results are GRAB_OBJECT,
\* RELEASE_OBJECT, the four swipes, CLICK, HOVER_OBJECT and UNKNOWN.
C9_NeverDrag ==
    session.intent # None
        => Val(session.intent).intent_type \in
              { GRAB_OBJECT, RELEASE_OBJECT, SWIPE_LEFT, SWIPE_RIGHT, SWIPE_UP,
                SWIPE_DOWN, CLICK, HOVER_OBJECT, UNKNOWN }

\* A moving fist, the only snapshot the DRAG rule accepts, has yielded a grab.
C9_Witness ==
    /\ session.intent # None
    /\ GdFist
    /\ VelocityMoves(Get(session.gesture_data, "velocity", ZeroVelocity))
    /\ Val(session.intent).intent_type = GRAB_OBJECT

\* What a session shows of a frame: the intent, the grabbed window and its
\* offset, the open menu and the commands issued.
Response(s) ==
    [ intent |-> s.intent, grabbed_window |-> s.c.grabbed_window,
      grab_offset |-> s.c.grab_offset, active_menu |-> s.c.active_menu,
      issued |-> s.issued ]

\* C10: after a no-hand frame, the session answers every later hand frame
\* as a session freshly started at that point does.
C10_LossEqualsFreshStart ==
    (fresh # None /\ Val(fresh).hand_position_buffer # << >>)
        => Response(session) = Response(Val(fresh))

\* The last n values of a sequence.
LastN(seq, n) == SubSeq(seq, Len(seq) - n + 1, Len(seq))

\* C14: a SlidingBuffer(maxlen = N) never holds more than N values, get()
\* is the last min(N, k) of the k values appended since the last clear, in
\* the order appended, and is_full() holds exactly when size() = N.
C14_SlidingBufferKeepsLastN ==
    /\ buffer_size(sbuf) <= sbuf.maxlen
    /\ buffer_get(sbuf) = LastN(appended, Min(sbuf.maxlen, Len(appended)))
    /\ buffer_is_full(sbuf) <=> (buffer_size(sbuf) = sbuf.maxlen)

\* More values were appended than the buffer holds, and the first one
\* appended, different from the oldest one kept, is gone.
C14_Witness ==
    /\ sbuf.maxlen >= 2
    /\ Len(appended) > sbuf.maxlen
    /\ buffer_is_full(sbuf)
    /\ appended[1] # buffer_get(sbuf)[1]
    /\ buffer_get_first(sbuf) = Some(appended[Len(appended) - sbuf.maxlen + 1])
    /\ buffer_get_last(sbuf) = Some(appended[Len(appended)])

\* The net displacement detect_swipe looks at: last minus first of the last
\* min(5, n) samples.
NetDisplacement(h) ==
    LET window == LastN(h, Min(5, Len(h)))
    IN window[Len(window)] - window[1]

\* C15: detect_swipe returns swipe_right only if the net displacement over
\* its window exceeds 0.06, swipe_left only if it is below -0.06, and None
\* whenever its magnitude is at most 0.06.
C15_SwipeNeedsDisplacement ==
    LET h == buffer_get(sbuf)
        r == detect_swipe(h)
    IN IF Len(h) = 0 THEN r = None
       ELSE /\ r = Some("swipe_right") => 100 * NetDisplacement(h) > 6 * One
            /\ r = Some("swipe_left") => 100 * NetDisplacement(h) < -6 * One
            /\ 100 * Abs(NetDisplacement(h)) <= 6 * One => r = None
            /\ r \in { None, Some("swipe_left"), Some("swipe_right") }

\* A history falling by 0.4 has been detected as a swipe to the left, and
\* one more sample, leaving a fall of exactly 0.06, silences the detector.
C15_Witness ==
    /\ detected = Some("swipe_left")
    /\ buffer_get(sbuf) = << (9 * One) \div 10, One \div 2, (56 * One) \div 100,
                             One \div 2, One \div 2 >>
    /\ detect_swipe(SubSeq(buffer_get(sbuf), 1, 4)) = detected
    /\ detect_swipe(SubSeq(buffer_get(sbuf), 3, 5)) = None

Reverse(h) == [ i \in 1..Len(h) |-> h[Len(h) + 1 - i] ]

Opposite(r) ==
    IF r = Some("swipe_right") THEN Some("swipe_left")
    ELSE IF r = Some("swipe_left") THEN Some("swipe_right")
    ELSE r

\* C16: for every history of 3 to 5 samples, detect_swipe on the reversed
\* history returns the opposite of what it returns on the history.
C16_ReversedSwipeIsOpposite ==
    LET h == buffer_get(sbuf)
    IN Len(h) \in 3..5 => detect_swipe(Reverse(h)) = Opposite(detect_swipe(h))

\* [0.5, 0.5, 0.5, 0.9] was detected as swipe_right, and its reverse is a
\* swipe_left.
C16_Witness ==
    /\ buffer_get(sbuf) = << One \div 2, One \div 2, One \div 2, (9 * One) \div 10 >>
    /\ detected = Some("swipe_right")
    /\ detect_swipe(<< (9 * One) \div 10, One \div 2, One \div 2, One \div 2 >>)
           = Some("swipe_left")

\* C20: every gesture predicate (is_fist, is_open_palm, is_index_pointing,
\* is_pointing_down, is_pointing_left, is_pointing_right) returns False
\* without raising when the landmarks are None, empty or fewer than 21.
PredicateNames ==
    { "is_fist", "is_open_palm", "is_index_pointing", "is_pointing_down",
      "is_pointing_left", "is_pointing_right" }
C20_PredicatesFalseOnShortInput ==
    (verdicts # None /\ TooFewLandmarks(lm)) =>
        \A name \in PredicateNames :
            /\ Val(verdicts)[name].raises = None
            /\ Val(verdicts)[name].returns = Some(FALSE)

\* C11: in relative mode, a move_cursor(x, y) call made while the reference
\* is unset (at the start of a session or after reset_smoothing) issues no
\* cursor move, whatever x and y are, and leaves the reference at (x, y).
FirstMoveCalled ==
    /\ pointer.cursor.use_relative_mapping
    /\ pointer.cursor.reference_x = None
    /\ pointer.cursor.reference_y = None
    /\ called' # None
    /\ Val(called').op = "move_cursor"
SmootherFields(c) ==
    { c.smooth_x, c.smooth_y, c.velocity_x, c.velocity_y,
      c.reference_x, c.reference_y }
C13_SmootherAllOrNothing ==
    \/ \A f \in SmootherFields(pointer.cursor) : f = None
    \/ \A f \in SmootherFields(pointer.cursor) : f # None

\* C12: in version2's loop, when a frame without a hand is followed by a
\* frame with the hand at the raw position it had before the loss, the
\* re-acquisition frame moves the cursor by no more than the dead-zone
\* threshold (it issues no move at all), and the velocity and the smoothed
\* delta from before the loss are gone (both are zero).
Reacquired ==
    /\ trace.cur # None
    /\ trace.prev = None
    /\ trace.lost_at = Some(<< Val(trace.cur).x, Val(trace.cur).y >>)
C12_ReacquisitionDoesNotJump ==
    Reacquired =>
        /\ ~HasCall(pointer.mouse.calls, "moveTo")
        /\ pointer.cursor.smooth_x = Some(0)
        /\ pointer.cursor.smooth_y = Some(0)
        /\ pointer.cursor.velocity_x = Some(0)
        /\ pointer.cursor.velocity_y = Some(0)
\* The hand moved to the right of the centre, was lost, and is back there.
C12_Witness ==
    /\ Reacquired
    /\ trace.frames = 4
    /\ Val(trace.cur).x = ToFine(One \div 2 + One \div 100)
    /\ pointer.mouse.x # ScreenWidth \div 2

\* C17: version2 issues a click or a desktop switch only on a frame where
\* the gesture is shown and the preceding frame did not show it or had no
\* hand; a held gesture issues at most one action.
Count(seq, Test(_)) == Cardinality({ k \in 1..Len(seq) : Test(seq[k]) })
IsClick(call) == call.op = "click"
IsSwitch(command) == command \in DesktopSwitches
RisingEdge(field) ==
    /\ trace.cur # None
    /\ Val(trace.cur).g[field]
    /\ trace.prev = None \/ ~Val(trace.prev).g[field]
C17_ActionsOnlyOnRisingEdge ==
    /\ HasCall(pointer.mouse.calls, "click") => RisingEdge("current_pointing_down")
    /\ HasCommand(v2loop.issued, { "switch_desktop_left" }) => RisingEdge("pointing_left")
    /\ HasCommand(v2loop.issued, { "switch_desktop_right" }) => RisingEdge("pointing_right")
    /\ Count(pointer.mouse.calls, IsClick) <= 1
    /\ Count(v2loop.issued, IsSwitch) <= 1
\* A desktop switch issued when the hand, already in the frame, starts to
\* point left.
C17_Witness ==
    /\ HasCommand(v2loop.issued, { "switch_desktop_left" })
    /\ trace.prev # None
    /\ ~Val(trace.prev).g.pointing_left

\* C19: after a frame without a hand, version2's previous-gesture flags are
\* all false, the swipe buffer is empty, the six smoother fields are None and
\* no drag is in progress, the mouse button having been released if it was
\* held.
AfterNoHand == trace.frames > 0 /\ trace.cur = None
C19_NoHandResetsEverything ==
    AfterNoHand =>
        /\ ~v2loop.prev_fist
        /\ ~v2loop.prev_open_palm
        /\ ~v2loop.prev_index_pointing
        /\ ~v2loop.prev_pointing_down
        /\ ~AttrTrue(v2loop.gestures_prev_pointing_left)
        /\ ~AttrTrue(v2loop.gestures_prev_pointing_right)
        /\ ~AttrTrue(v2loop.gestures_prev_pointing_down)
        /\ buffer_size(v2loop.swipe_buffer) = 0
        /\ \A f \in SmootherFields(pointer.cursor) : f = None
        /\ ~v2loop.is_dragging
        /\ ~pointer.cursor.is_dragging
        /\ ~pointer.mouse.down
        /\ trace.was_down => HasCall(pointer.mouse.calls, "mouseUp")
\* The hand was lost in the middle of a drag, after pointing down.
C19_Witness ==
    /\ AfterNoHand
    /\ trace.was_down
    /\ HasCall(pointer.mouse.calls, "mouseUp")
    /\ v2loop.gestures_prev_pointing_down = Some(FALSE)
    /\ v2loop.last_click_time > 0

\* C18: two consecutive executions of the same class of action are more
\* than its cooldown apart: clicks more than 0.3 s in version2, desktop
\* switches more than 0.5 s in version2, swipe commands more than 0.5 s in
\* version3 (object mode and cursor mode); the click timer and the swipe
\* timer do not hold each other back.
Spaced(times, cooldown) == Len(times) = 2 => times[2] - times[1] > cooldown
V2Spaced ==
    /\ Spaced(trace.clicks, ClickCooldown)
    /\ Spaced(trace.switches, V2SwipeCooldown)
\* A swipe command among what a pass of version3's loop issued.
SwipeCommands ==
    { "switch_desktop_left", "switch_desktop_right", "scroll_up", "scroll_down" }
IssuedSwipe(s) == \E k \in 1..Len(s.issued) : s.issued[k].cmd \in SwipeCommands
\* A pass of version3's loop: the clock and version2's trace stand still.
V3Frame == now' = now /\ trace' = trace /\ session' # session
\* The pass that executes a swipe command finds the last such execution
\* more than the cooldown back and notes the time; the noted time never
\* goes back.
V3Spaced ==
    /\ (V3Frame /\ IssuedSwipe(session')) =>
           /\ now - session.last_swipe_time > SwipeCooldown
           /\ session'.last_swipe_time = now
    /\ session'.last_swipe_time >= session.last_swipe_time
\* The swipe handling of version3's cursor mode, applied where the loop is.
CursorModeSpaced ==
    \A d \in SwipeInputs :
        LET s1 == cursor_mode_swipe([ session EXCEPT !.issued = << >> ], d, now)
        IN IssuedSwipe(s1) =>
               /\ now - session.last_swipe_time > SwipeCooldown
               /\ s1.last_swipe_time = now
C18_CooldownsSeparateExecutions ==
    /\ [](V2Spaced /\ CursorModeSpaced)
    /\ [][V3Spaced]_vars
\* Two desktop switches of version2, 0.6 s apart, and a click less than
\* 0.3 s after the second.
C18_Witness ==
    /\ Len(trace.switches) = 2
    /\ Len(trace.clicks) >= 1
    /\ trace.clicks[Len(trace.clicks)] >= trace.switches[2]
    /\ trace.clicks[Len(trace.clicks)] - trace.switches[2] < ClickCooldown
\* A swipe command executed by version3 after an earlier one.
C18_WitnessV3 ==
    /\ IssuedSwipe(session)
    /\ session.last_swipe_time = now
    /\ now > StartTime

\* C30: detect_swipe returns None for a history of fewer than 3 samples, and
\* for a longer one its result depends only on the last min(5, n) samples:
\* whatever one or two samples come before the last 5, the result is that of
\* the last 5 alone.
EarlierSamples == { << e >> : e \in Samples } \cup (Samples \X Samples)
C30_SwipeDependsOnLastFive ==
    LET h == buffer_get(sbuf)
    IN /\ Len(h) < 3 => detect_swipe(h) = None
       /\ Len(h) >= 3 => detect_swipe(h) = detect_swipe(LastN(h, Min(5, Len(h))))
       /\ Len(h) = 5 =>
             \A earlier \in EarlierSamples :
                 detect_swipe(earlier \o h) = detect_swipe(h)
\* A swipe to the right was detected in 5 samples, and it still is when the
\* history starts with a sample far to the right of them all.
C30_Witness ==
    /\ Len(buffer_get(sbuf)) = 5
    /\ detected = Some("swipe_right")
    /\ detect_swipe(buffer_get(sbuf)) = detected
    /\ detect_swipe(<< (9 * One) \div 10 >> \o buffer_get(sbuf)) = detected
    /\ buffer_get(sbuf)[5] < (9 * One) \div 10

\* What one axis of a relative-mode move_cursor call computes from the state
\* the call finds; the call is the one recorded in called'.
MovedRelative ==
    /\ called' # None
    /\ Val(called').op = "move_cursor"
    /\ pointer.cursor.use_relative_mapping
    /\ pointer.cursor.reference_x # None
    /\ pointer.cursor.reference_y # None
AxisX ==
    RelativeAxis(Val(called').x, Val(pointer.cursor.reference_x),
                 pointer.cursor.smooth_x, pointer.cursor.velocity_x,
                 pointer.cursor.sensitivity)
AxisY ==
    RelativeAxis(Val(called').y, Val(pointer.cursor.reference_y),
                 pointer.cursor.smooth_y, pointer.cursor.velocity_y,
                 pointer.cursor.sensitivity)
VelocityCap == (MaxVelocity * Fine) \div 100

\* C27: after every relative-mode move_cursor call the stored velocity of
\* each axis is within [-0.05, 0.05], and the final delta (the one stored
\* and emitted) is within 0.05 of the position-smoothed delta on each axis.
C27_VelocityClamped ==
    [][ (called' # None /\ Val(called').op = "move_cursor"
           /\ pointer.cursor.use_relative_mapping) =>
          /\ Abs(Val(pointer'.cursor.velocity_x)) <= VelocityCap
          /\ Abs(Val(pointer'.cursor.velocity_y)) <= VelocityCap
          /\ MovedRelative =>
                /\ Abs(Val(pointer'.cursor.smooth_x) - AxisX.position_smooth)
                     <= VelocityCap
                /\ Abs(Val(pointer'.cursor.smooth_y) - AxisY.position_smooth)
                     <= VelocityCap ]_vars
\* The hand jumped from the centre to the far corner: the velocity is held
\* at 0.05 and the mouse was moved.
C27_Witness ==
    /\ called # None
    /\ Val(called).op = "move_cursor"
    /\ ~Val(called).unset
    /\ pointer.cursor.use_relative_mapping
    /\ pointer.cursor.velocity_x = Some(VelocityCap)
    /\ pointer.cursor.velocity_y = Some(VelocityCap)
    /\ HasCall(pointer.mouse.calls, "moveTo")

\* C28: in relative mode what is fed into the velocity EMA is the change in
\* the position-smoothed delta: the smoothed delta of this frame minus the
\* smoothed value stored before this frame's update.
C28_VelocityFromSmoothedChange ==
    [][ (MovedRelative /\ pointer.cursor.smooth_x # None
           /\ pointer.cursor.smooth_y # None) =>
          /\ AxisX.velocity_update
               = AxisX.position_smooth - Val(pointer.cursor.smooth_x)
          /\ AxisY.velocity_update
               = AxisY.position_smooth - Val(pointer.cursor.smooth_y) ]_vars

\* C23: after any sequence of add_object, remove_object, grab_object,
\* release_object and update_hover at most one object of the ObjectManager's
\* list has state HOVERED.
HoveredObjects == { o \in ObjIds : InList(objects, o) /\ vobj[o].state = HOVERED }
C23_AtMostOneHovered == Cardinality(HoveredObjects) <= 1


\* ---------------------------------------------------------------------------
\* Lookups that find nothing (C21)
\* ---------------------------------------------------------------------------
\* A hand position away from every window of the desktop.
FarPositions == { << (9 * One) \div 10, (9 * One) \div 10, (3 * One) \div 10 >> }
LookupIntents ==
    { GestureIntent(t, 100, p, EmptyDict) :
        t \in { GRAB_OBJECT, HOVER_OBJECT, OPEN_MENU },
        p \in { None } \cup { Some(q) : q \in PositionInputs \cup FarPositions } }
\* No window's center is within num/den of the smaller screen extent.
NoWindowWithin(windows, x, y, num, den) ==
    \A k \in 1..Len(windows) :
        den * den * Dist2(windows[k], ToScreen(x, ScreenWidth), ToScreen(y, ScreenHeight))
            >= num * num * Min(ScreenWidth, ScreenHeight) * Min(ScreenWidth, ScreenHeight)
\* No window's rectangle holds the point.
NoWindowUnder(windows, x, y) ==
    \A k \in 1..Len(windows) :
        \/ ToScreen(x, ScreenWidth) < windows[k].left
        \/ ToScreen(x, ScreenWidth) > windows[k].right
        \/ ToScreen(y, ScreenHeight) < windows[k].top
        \/ ToScreen(y, ScreenHeight) > windows[k].bottom
\* The hand and the window list the handler of intent i works with.
LookupView(w, i) ==
    LET c == IF i.position # None THEN update_hand_position(w.c, Val(i.position))
             ELSE w.c
    IN [ c |-> c, windows |-> get_all_windows(WmOf(c), w.desktop, now).windows ]
NoTarget(w, i) ==
    LET v == LookupView(w, i)
    IN IF i.intent_type = GRAB_OBJECT
       THEN NoWindowWithin(v.windows, v.c.hand_x, v.c.hand_y, 1, 4)
       ELSE NoWindowUnder(v.windows, v.c.hand_x, v.c.hand_y)
LookupWorld == [ WorldOf(session) EXCEPT !.issued = << >> ]
\* No object of the scene holds the point / is within 0.2 of it.
NoObjectUnder(x, y) ==
    \A k \in 1..Len(objects) : ~is_point_inside(vobj[objects[k]], x, y)
NoObjectWithin(x, y, z) ==
    \A k \in 1..Len(objects) :
        25 * Distance2To(vobj[objects[k]], x, y, z) >= One * One

\* C21: when no window is within grab distance of the hand (GRAB_OBJECT) or
\* under it (HOVER_OBJECT, OPEN_MENU), process_intent returns with
\* grabbed_window, grab_offset and the active menu as they were, no command
\* issued and the lookups returning None; ObjectManager's find_nearest_object
\* and find_object_at_point return None when no object qualifies.
C21_NoTargetLeavesStateAlone ==
    /\ \A i \in LookupIntents, ok \in BOOLEAN :
          LET w == LookupWorld
              v == LookupView(w, i)
              r == process_intent(w, i, now, ok)
          IN NoTarget(w, i) =>
                /\ r.c.grabbed_window = w.c.grabbed_window
                /\ r.c.grab_offset = w.c.grab_offset
                /\ r.c.active_menu = w.c.active_menu
                /\ r.issued = << >>
                /\ r.desktop = w.desktop
                /\ i.intent_type = GRAB_OBJECT =>
                       find_nearest_window(v.windows, v.c.hand_x, v.c.hand_y, 1, 4) = None
                /\ i.intent_type # GRAB_OBJECT =>
                       find_window_at_position(v.windows, v.c.hand_x, v.c.hand_y) = None
    /\ \A x \in HandXs, y \in HoverYs, z \in HandZs :
          /\ NoObjectUnder(x, y) => find_object_at_point(objects, vobj, x, y) = None
          /\ NoObjectWithin(x, y, z) =>
                 find_nearest_object(objects, vobj, x, y, z, 1, 5) = None
\* A window is held and a menu is open, and a grab far from every window
\* finds nothing and leaves both in place.
C21_Witness ==
    /\ session.c.grabbed_window # None
    /\ session.c.active_menu # None
    /\ \E i \in LookupIntents :
          /\ i.intent_type = GRAB_OBJECT
          /\ NoTarget(LookupWorld, i)
          /\ process_intent(LookupWorld, i, now, TRUE).c.grabbed_window
                 = session.c.grabbed_window


\* ---------------------------------------------------------------------------
\* Actuation that fails (C24)
\* ---------------------------------------------------------------------------
IssuedCommand(w, cmd) == \E k \in 1..Len(w.issued) : w.issued[k].cmd = cmd

\* C24: when the window system refuses the command a handler issues (the
\* bring-to-front of GRAB_OBJECT, the move of DRAG), process_intent still
\* returns, with the controller's fields exactly those of a successful call: a
\* grab records grabbed_window and grab_offset, and only the desktop stays as
\* it was.
C24_FailedActuationStillUpdatesState ==
    \A i \in IntentInputs :
        LET w == LookupWorld
            good == process_intent(w, i, now, TRUE)
            bad == process_intent(w, i, now, FALSE)
        IN /\ bad.c = good.c
           /\ bad.issued = good.issued
           /\ bad.desktop = w.desktop
           /\ IssuedCommand(bad, "bring_to_front") =>
                  /\ bad.c.grabbed_window # None
                  /\ bad.c.grab_offset # None
                  /\ Val(bad.c.grabbed_window).hwnd = bad.issued[1].hwnd
\* The controller holds the window its last command asked to raise, and the
\* desktop still has another window in front.
C24_Witness ==
    /\ IssuedCommand(session, "bring_to_front")
    /\ session.c.grabbed_window # None
    /\ session.c.grab_offset # None
    /\ session.desktop[1].hwnd # Val(session.c.grabbed_window).hwnd
\* A drag whose move was refused: the window is still held and still where
\* the desktop started it.
C24_WitnessDrag ==
    /\ IssuedCommand(session, "move_window")
    /\ session.c.grabbed_window # None
    /\ session.c.hand_x # (Val(session.c.grabbed_window).center_x * One) \div ScreenWidth
    /\ session.desktop = InitialDesktop


\* ---------------------------------------------------------------------------
\* One open menu (C22)
\* ---------------------------------------------------------------------------
OpenMenus == { m \in opened : menus[m].is_open }

\* C22: after any sequence of open_menu, close_menu, select_menu_option and
\* execute_menu_action, every menu opened through the manager that is still
\* open is the manager's active_menu (so at most one is); open_menu closes
\* the menu that was active and makes the new one active; active_menu is None
\* after close_menu.
C22_OneOpenMenu ==
    /\ \A m \in OpenMenus : active_menu = Some(m)
    /\ Cardinality(OpenMenus) <= 1
    /\ close_menu(Manager).active_menu = None
    /\ \A m \in opened : ~close_menu(Manager).menus[m].is_open
    /\ \A m \in MenuIds, p \in MenuPositions :
          LET r == open_menu(Manager, m, p[1], p[2])
          IN /\ r.active_menu = Some(m)
             /\ r.menus[m].is_open
             /\ \A k \in opened \ { m } : ~r.menus[k].is_open
\* Two menus were opened through the manager: the second is active and open
\* with an option selected, the first is closed.
C22_Witness ==
    /\ Cardinality(opened) >= 2
    /\ active_menu # None
    /\ menus[Val(active_menu)].is_open
    /\ menus[Val(active_menu)].selected_index # None
    /\ \E m \in opened : ~menus[m].is_open


\* ---------------------------------------------------------------------------
\* classify_gesture (C25, C26, C29)
\* ---------------------------------------------------------------------------
Label == Val(gesture)[1]
FingerVector == Val(gesture)[2]
Landmarks == Val(given).landmarks
\* Tip below PIP joint (y greater) for the index, middle, ring and pinky.
TipsBelowPips == \A k \in 2..5 : Landmarks[4 * k + 1].y > Landmarks[4 * k - 1].y
ThumbPredicate == thumb_extended(Landmarks, Val(given).handedness)

\* C25: a hand whose four non-thumb fingertips lie below their PIP joints and
\* whose thumb predicate is false is classified fist.
C25_CurledHandIsFist ==
    (given # None /\ TipsBelowPips /\ ~ThumbPredicate) => Label = "fist"

\* C26: a hand whose finger vector is all five fingers extended is
\* classified open.
C26_FiveFingersIsOpen ==
    (given # None /\ FingerVector = << 1, 1, 1, 1, 1 >>) => Label = "open"
\* All five fingers extended with the thumb's tip beside the index tip.
C26_Witness ==
    /\ given # None
    /\ FingerVector = << 1, 1, 1, 1, 1 >>
    /\ distance2(Landmarks[5], Landmarks[9]) = 36
    /\ Label = "open"

\* The claim's conditions, from the landmarks.
ThumbIndexClose ==
    625 * distance2(Landmarks[5], Landmarks[9]) < 9 * distance2(Landmarks[1], Landmarks[10])
Features == GestureFeatures(Landmarks, Val(given).handedness)
FingerCount ==
    FingerVector[1] + FingerVector[2] + FingerVector[3] + FingerVector[4] + FingerVector[5]
\* C29: pinch whenever the thumb-index distance is under 0.12 x hand_size and
\* the middle, ring and pinky fingers are not extended; otherwise the first
\* match of: vector exactly [thumb], thumb up, hand not horizontal ->
\* thumbs_up; no finger -> fist; at most one finger and hand horizontal ->
\* fist; five fingers -> open; else unknown.
C29_DecisionList ==
    given # None =>
        Label =
          IF ThumbIndexClose /\ FingerVector[3] = 0 /\ FingerVector[4] = 0
                /\ FingerVector[5] = 0
          THEN "pinch"
          ELSE IF FingerVector = << 1, 0, 0, 0, 0 >> /\ Features.thumb_is_up
                     /\ ~Features.is_horizontal
          THEN "thumbs_up"
          ELSE IF FingerCount = 0 THEN "fist"
          ELSE IF FingerCount <= 1 /\ Features.is_horizontal THEN "fist"
          ELSE IF FingerCount = 5 THEN "open"
          ELSE "unknown"
\* A hand on its side with only the thumb out, and that thumb up: a fist.
C29_Witness ==
    /\ given # None
    /\ FingerVector = << 1, 0, 0, 0, 0 >>
    /\ Features.thumb_is_up
    /\ Features.is_horizontal
    /\ ~ThumbIndexClose
    /\ Label = "fist"


\* ---------------------------------------------------------------------------
\* Selecting an option (C39)
\* ---------------------------------------------------------------------------
ValidSelection(menu) ==
    \/ menu.selected_index = None
    \/ 0 <= Val(menu.selected_index) /\ Val(menu.selected_index) < menu.num_options

\* C39: select_menu_option never raises, whatever the angle and the active
\* menu (a menu without options included); afterwards the active menu's
\* selected_index is None or a valid index; with no active open menu the
\* call changes nothing.
C39_SelectNeverRaises ==
    \A angle \in MenuAngles :
        LET r == select_menu_option(Manager, angle)
        IN /\ r.raises = None
           /\ \A m \in MenuIds : ValidSelection(Val(r.returns).menus[m])
           /\ (active_menu = None \/ ~menus[Val(active_menu)].is_open) =>
                  Val(r.returns) = Manager


\* ---------------------------------------------------------------------------
\* Fist and open palm exclude each other (C37)
\* ---------------------------------------------------------------------------
FullInput == lm # None /\ Len(Val(lm)) = 21
ExtendedCount == Cardinality({ k \in Fingers : ExtOf(Val(lm))[k] })

\* C37: for 21 landmarks is_fist and is_open_palm are never both true, and
\* neither are the two flags the version3 loop computes from a frame's
\* finger comparisons.
C37_FistExcludesOpenPalm ==
    /\ (verdicts # None /\ FullInput) =>
           ~(/\ Val(verdicts).is_fist = Returns(TRUE)
             /\ Val(verdicts).is_open_palm = Returns(TRUE))
    /\ \A ext \in [ Fingers -> BOOLEAN ] : ~(is_fist(ext) /\ is_open_palm(ext))
\* Three of the four fingers up: an open palm and no fist.
C37_Witness ==
    /\ verdicts # None /\ FullInput
    /\ ExtendedCount = 3
    /\ Val(verdicts).is_open_palm = Returns(TRUE)
    /\ Val(verdicts).is_fist = Returns(FALSE)
\* All four fingers curled: a fist and no open palm.
C37_WitnessFist ==
    /\ verdicts # None /\ FullInput
    /\ ExtendedCount = 0
    /\ Val(verdicts).is_fist = Returns(TRUE)
    /\ Val(verdicts).is_open_palm = Returns(FALSE)


\* ---------------------------------------------------------------------------
\* The object under a point (C31)
\* ---------------------------------------------------------------------------
Containing(x, y) ==
    { o \in ObjIds : InList(objects, o) /\ is_point_inside(vobj[o], x, y) }

\* C31: find_object_at_point returns None when no object of the manager
\* contains the point, and otherwise an object that contains it and whose z
\* is the least among the objects containing it.
C31_FrontMostObjectFound ==
    \A x \in HandXs, y \in HoverYs :
        LET r == find_object_at_point(objects, vobj, x, y)
        IN /\ Containing(x, y) = {} => r = None
           /\ Containing(x, y) # {} =>
                  /\ r # None
                  /\ Val(r) \in Containing(x, y)
                  /\ \A o \in Containing(x, y) : vobj[Val(r)].z <= vobj[o].z
\* Two objects overlap at the centre; the one later in the list is nearer
\* the camera, and update_hover hovered it and not the other.
C31_Witness ==
    \E i, j \in 1..Len(objects) :
        /\ i < j
        /\ { objects[i], objects[j] } \subseteq Containing(One \div 2, One \div 2)
        /\ vobj[objects[j]].z < vobj[objects[i]].z
        /\ vobj[objects[j]].state = HOVERED
        /\ vobj[objects[i]].state = IDLE
        /\ find_object_at_point(objects, vobj, One \div 2, One \div 2)
               = Some(objects[j])

\* ---------------------------------------------------------------------------
\* Grab, then drag (C32)
\* ---------------------------------------------------------------------------
DragHands == HandXs \X HandYs \X HandZs
PositionOf(o) == << o.x, o.y, o.z >>
InUnitCube(p) == \A k \in 1..3 : 0 <= p[k] /\ p[k] <= One
Dragged(o, h) == update_from_hand(o, h[1], h[2], h[3])

BeyondMinDisplacement(h) == 100 * Abs(NetDisplacement(h)) > 6 * One

\* C38: on a history of 3 or 4 samples (the window is the whole history) a
\* net displacement over 0.06 is always declared a swipe, in its direction;
\* a None with a displacement over 0.06 comes from a window of 5 samples only.
C38_ShortWindowsAlwaysSwipe ==
    LET h == buffer_get(sbuf)
    IN /\ (Len(h) \in { 3, 4 } /\ BeyondMinDisplacement(h)) =>
              detect_swipe(h) = Some(IF NetDisplacement(h) > 0 THEN "swipe_right"
                                     ELSE "swipe_left")
       /\ (Len(h) >= 3 /\ BeyondMinDisplacement(h)
              /\ detect_swipe(h) = None) => Len(h) >= 5
\* Three samples, the hand still and then 0.07 to the right in one frame:
\* one movement to the right only, and a swipe.
C38_Witness ==
    /\ buffer_get(sbuf) = << One \div 2, One \div 2, (57 * One) \div 100 >>
    /\ detected = Some("swipe_right")
\* Five samples, the same last step: no swipe.
C38_WitnessFive ==
    /\ buffer_get(sbuf) = << One \div 2, One \div 2, One \div 2, One \div 2,
                              (57 * One) \div 100 >>
    /\ detected = None
    /\ detect_swipe(buffer_get(sbuf)) = None


\* ---------------------------------------------------------------------------
\* Cursor targets stay on the screen (C40)
\* ---------------------------------------------------------------------------
\* C40: every moveTo that move_cursor issues, in relative and in absolute
\* mode, targets a pixel with 0 <= x <= screen_width - 1 and
\* 0 <= y <= screen_height - 1.
C40_MovesStayOnScreen ==
    \A k \in 1..Len(pointer.mouse.calls) :
        pointer.mouse.calls[k].op = "moveTo" =>
            /\ 0 <= pointer.mouse.calls[k].x
            /\ pointer.mouse.calls[k].x <= ScreenWidth - 1
            /\ 0 <= pointer.mouse.calls[k].y
            /\ pointer.mouse.calls[k].y <= ScreenHeight - 1


\* ---------------------------------------------------------------------------
\* An open palm ends the drag (C33)
\* ---------------------------------------------------------------------------
\* The frame just processed showed an open palm while the button was held.
OpenPalmDuringDrag ==
    /\ trace.cur # None
    /\ Val(trace.cur).g.current_open_palm
    /\ trace.was_down

\* C33: in version2's loop a frame that shows an open palm while a drag is
\* in progress stops the drag in that frame: mouseUp is issued and
\* is_dragging is false afterwards, whatever frames came before.
C33_OpenPalmStopsDrag ==
    OpenPalmDuringDrag =>
        /\ HasCall(pointer.mouse.calls, "mouseUp")
        /\ ~v2loop.is_dragging
        /\ ~pointer.cursor.is_dragging
        /\ ~pointer.mouse.down


\* C34: in version 3's object mode, a frame that shows an open palm while a
\* window is grabbed yields RELEASE_OBJECT and leaves no window grabbed,
\* whatever frames came between the grab and the open palm.
C34_OpenPalmReleasesGrabbed ==
    [][ \A f \in FrameInputs, ok \in BOOLEAN :
          ( /\ session.c.grabbed_window # None
            /\ is_open_palm(f.ext)
            /\ session' = hand_frame(session, f, now, ok) )
          => ( /\ Val(session'.intent).intent_type = RELEASE_OBJECT
               /\ session'.c.grabbed_window = None ) ]_vars


\* The intent a hand frame of the object-mode loop would produce from here.
IntentAfter(s, f) == Val(hand_frame(s, f, now, TRUE).intent).intent_type

\* C35: in version 3's per-frame cycle session.intent is what the last
\* processed hand frame produced, and a hand frame produces RELEASE_OBJECT
\* only if that was GRAB_OBJECT; so the hand frame after a RELEASE_OBJECT
\* frame never produces RELEASE_OBJECT.
C35_ReleaseOnlyRightAfterGrab ==
    /\ session.intent = session.last_intent
    /\ \A f \in FrameInputs :
         IntentAfter(session, f) = RELEASE_OBJECT
         => ( /\ session.intent # None
              /\ Val(session.intent).intent_type = GRAB_OBJECT )

\* An open-palm frame right after a fist frame has just produced the release.
C35_Witness ==
    /\ session.intent # None
    /\ Val(session.intent).intent_type = RELEASE_OBJECT
    /\ Get(session.gesture_data, "open_palm", FALSE)
    /\ session.c.grabbed_window = None
    /\ session.c.grab_offset = None
    /\ session.prev_open_palm


\* The mouseDown and mouseUp calls among the calls, in order.
IsButtonCall(c) == c.op \in { "mouseDown", "mouseUp" }
ButtonCalls(calls) == SelectSeq(calls, IsButtonCall)

\* The button calls alternate, the first one being mouseDown if the button
\* was up before them and mouseUp if it was held.
Alternate(calls, held) ==
    \A k \in 1..Len(calls) :
        calls[k].op = IF held = (k % 2 = 0) THEN "mouseDown" ELSE "mouseUp"

\* ---- the drag functions called by the loop and by any other caller
\* A call of cursor.start_drag() or cursor.stop_drag() from outside the
\* loop, between two frames; the mouse's calls are those of this step.
DirectCall(after) ==
    /\ pointer' = after
    /\ trace' = [ trace EXCEPT !.was_down = pointer.mouse.down ]
    /\ UNCHANGED << now, v2loop >>
    /\ V2Idle

StartDrag == DirectCall(cursor_start_drag([ pointer EXCEPT !.mouse.calls = << >> ]))
StopDrag == DirectCall(cursor_stop_drag([ pointer EXCEPT !.mouse.calls = << >> ]))

\* The hands the drag handling tells apart: a fist, an open palm, and an
\* index pointing up and a curled index below the wrist, which are neither.
V2DragHands ==
    { MakeHand(AllCurled, 0, (7 * One) \div 10),
      MakeHand(AllExtended, 0, (7 * One) \div 10),
      MakeHand(IndexOnly, 0, (7 * One) \div 10),
      MakeHand(AllCurled, 0, One \div 2) }

DragFrameV2 ==
    /\ trace.frames < MaxFrames
    /\ \E l \in V2DragHands :
         LET w == hand_frame_v2([ loop |-> v2loop, pointer |-> pointer ], l, now)
         IN /\ v2loop' = w.loop
            /\ pointer' = w.pointer
            /\ trace' = Traced(trace, Shown(l), w, pointer.mouse.down, now)
    /\ UNCHANGED now
    /\ V2Idle

\* The drag handling reads no clock: the frames are taken at one time.
NextDrag ==
    \/ StartDrag
    \/ StopDrag
    \/ DragFrameV2
    \/ NoHandFrameV2
SpecDrag == InitV2 /\ [][NextDrag]_vars

\* C36: over any calls of start_drag and stop_drag, those of version 2's
\* loop on any frames included, the button starts up, the mouseDown and
\* mouseUp calls of each step continue the alternation the steps before
\* left off (so over the run they alternate, starting with mouseDown), and
\* is_dragging() is true exactly while the last button call is a mouseDown.
C36_DownAndUpAlternate ==
    LET calls == ButtonCalls(pointer.mouse.calls)
    IN /\ Alternate(calls, trace.was_down)
       /\ pointer.mouse.down = ( trace.was_down = (Len(calls) % 2 = 0) )
       /\ pointer.cursor.is_dragging = pointer.mouse.down

\* A fist frame found the button already held by an earlier drag whose fist
\* was interrupted: start_drag is called again and issues nothing.
C36_Witness ==
    /\ trace.cur # None /\ Val(trace.cur).g.current_fist
    /\ trace.prev # None /\ ~Val(trace.prev).g.current_fist
    /\ trace.was_down
    /\ pointer.cursor.is_dragging
    /\ ButtonCalls(pointer.mouse.calls) = << >>

\* A frame without a hand ended a drag: one mouseUp, and is_dragging() false.
C36_WitnessUp ==
    /\ trace.cur = None /\ trace.was_down /\ v2loop.prev_fist = FALSE
    /\ Len(ButtonCalls(pointer.mouse.calls)) = 1
    /\ ~pointer.cursor.is_dragging

====
